---- MODULE Spec2Model ----
(***************************************************************************)
(* Framer-HTML to Mintlify-MDX conversion scripts.                         *)
(*                                                                         *)
(* Text is modelled character by character: a Python str is a TLA+ string, *)
(* on which Len, SubSeq and \o act per character.  Every re.sub / findall  *)
(* of the scripts is an operator that scans the string the way the regular *)
(* expression does (leftmost match, greedy / lazy quantifiers, DOTALL or   *)
(* not).                                                                   *)
(***************************************************************************)
EXTENDS Integers, Sequences, FiniteSets, TLC

(***************************************************************************)
(* String primitives                                                       *)
(***************************************************************************)

\* s[i:i+len(p)] == p
At(s, i, p) ==
    /\ i >= 1
    /\ i + Len(p) - 1 <= Len(s)
    /\ SubSeq(s, i, i + Len(p) - 1) = p

\* s[i-1:] (1-based i)
From(s, i) == SubSeq(s, i, Len(s))

\* a local variable: F applied to the value v, computed once
Let(v, F(_)) == F(v)

RECURSIVE Find(_, _, _)
\* str.find / the regex engine's scan for a literal: first index >= i, 0 if none
\* (the string is searched a stretch of 32 positions at a time)
Find(s, p, i) ==
    LET last == Len(s) - Len(p) + 1 IN
    IF i > last THEN 0
    ELSE LET hi == IF i + 31 < last THEN i + 31 ELSE last
             H == {k \in i..hi : SubSeq(s, k, k + Len(p) - 1) = p}
         IN IF H # {} THEN CHOOSE k \in H : \A j \in H : k <= j
            ELSE Find(s, p, hi + 1)

\* p in s
Contains(s, p) == Find(s, p, 1) # 0

\* the characters str.strip() and the regex class \s remove
IsSpace(c) == c \in {" ", "\t", "\n", "\r", "\f"}

RECURSIVE SkipSpace(_, _)
\* index of the first character at or after i that is not whitespace (\s*)
SkipSpace(s, i) ==
    IF i <= Len(s) /\ IsSpace(SubSeq(s, i, i)) THEN SkipSpace(s, i + 1) ELSE i

RECURSIVE SkipSpaceBack(_, _)
SkipSpaceBack(s, j) ==
    IF j >= 1 /\ IsSpace(SubSeq(s, j, j)) THEN SkipSpaceBack(s, j - 1) ELSE j

\* str.strip()
strip(s) == SubSeq(s, SkipSpace(s, 1), SkipSpaceBack(s, Len(s)))

RECURSIVE str_replace(_, _, _, _)
\* s.replace(old, new), scanning from index i
str_replace(s, old, new, i) ==
    Let(Find(s, old, i), LAMBDA o :
    IF o = 0 THEN From(s, i)
    ELSE SubSeq(s, i, o - 1) \o new \o str_replace(s, old, new, o + Len(old)))

(***************************************************************************)
(* html.unescape, for the named references amp, lt, gt and quot (with or   *)
(* without the closing semicolon); the texts of the model hold no other    *)
(* character reference.                                                    *)
(***************************************************************************)
EntityNames == <<"amp", "lt", "gt", "quot">>
EntityChars == <<"&", "<", ">", "\"">>

\* [len |-> characters consumed from the "&" on, ch |-> replacement]; len = 0: no reference
replace_charref(s, a) ==
    LET hits == {n \in 1..Len(EntityNames) : At(s, a + 1, EntityNames[n])} IN
    IF hits = {} THEN [len |-> 0, ch |-> ""]
    ELSE LET n == CHOOSE m \in hits : TRUE
             e == a + Len(EntityNames[n])
         IN [len |-> IF At(s, e + 1, ";") THEN e + 1 - a + 1 ELSE e - a + 1,
             ch  |-> EntityChars[n]]

RECURSIVE unescape_from(_, _)
unescape_from(s, i) ==
    LET a == Find(s, "&", i) IN
    IF a = 0 THEN From(s, i)
    ELSE LET r == replace_charref(s, a) IN
         IF r.len = 0 THEN SubSeq(s, i, a) \o unescape_from(s, a + 1)
         ELSE SubSeq(s, i, a - 1) \o r.ch \o unescape_from(s, a + r.len)

\* html.unescape(s)
unescape(s) == unescape_from(s, 1)

(***************************************************************************)
(* Regular-expression substitutions shared by the converters               *)
(***************************************************************************)

RECURSIVE sub_pair(_, _, _, _, _, _, _)
\* re.sub(open(.*?)close, pre \1 post, s); dotall = FALSE: "." stops at "\n"
sub_pair(s, i, open, close, pre, post, dotall) ==
    Let(Find(s, open, i), LAMBDA o :
    IF o = 0 THEN From(s, i)
    ELSE Let(Find(s, close, o + Len(open)), LAMBDA c :
         IF c = 0 THEN From(s, i)
         ELSE IF ~dotall /\ Contains(SubSeq(s, o + Len(open), c - 1), "\n")
              THEN SubSeq(s, i, o) \o sub_pair(s, o + 1, open, close, pre, post, dotall)
              ELSE SubSeq(s, i, o - 1) \o pre \o SubSeq(s, o + Len(open), c - 1) \o post
                   \o sub_pair(s, c + Len(close), open, close, pre, post, dotall)))

\* the match of  <NAME[^>]+ATTR="([^"]+)"[^>]*>(.*?)CLOSE  starting at o, where
\* [^>]+ ends right before index k: [ok, val, text, end]
attr_match_at(s, o, k, name, attr, close, dotall) ==
    Let(Find(s, "\"", k + Len(attr) + 2), LAMBDA q :
    Let(IF q > k + Len(attr) + 2 THEN Find(s, ">", q + 1) ELSE 0, LAMBDA g :
    Let(IF g # 0 THEN Find(s, close, g + 1) ELSE 0, LAMBDA c :
    IF c # 0 /\ (dotall \/ ~Contains(SubSeq(s, g + 1, c - 1), "\n"))
    THEN [ok |-> TRUE,
          val |-> SubSeq(s, k + Len(attr) + 2, q - 1),
          text |-> SubSeq(s, g + 1, c - 1),
          end |-> c + Len(close) - 1]
    ELSE [ok |-> FALSE, val |-> "", text |-> "", end |-> 0])))

\* the leftmost-greedy match of that expression at o (s[o..] starts with <NAME)
attr_match(s, o, name, attr, close, dotall) ==
    Let(Find(s, ">", o + Len(name) + 1), LAMBDA g0 :
    Let({k \in (o + Len(name) + 2)..(IF g0 = 0 THEN Len(s) ELSE g0 - 1) :
            /\ At(s, k, attr \o "=\"")
            /\ attr_match_at(s, o, k, name, attr, close, dotall).ok}, LAMBDA K :
    IF K = {} THEN [ok |-> FALSE, val |-> "", text |-> "", end |-> 0]
    ELSE attr_match_at(s, o, CHOOSE k \in K : \A j \in K : j <= k,
                       name, attr, close, dotall)))

RECURSIVE sub_links(_, _)
\* re.sub(r'<a[^>]+href="([^"]+)"[^>]*>(.*?)</a>', r'[\2](\1)', s)
sub_links(s, i) ==
    Let(Find(s, "<a", i), LAMBDA o :
    IF o = 0 THEN From(s, i)
    ELSE Let(attr_match(s, o, "a", "href", "</a>", FALSE), LAMBDA m :
         IF ~m.ok THEN SubSeq(s, i, o) \o sub_links(s, o + 1)
         ELSE SubSeq(s, i, o - 1) \o "[" \o m.text \o "](" \o m.val \o ")"
              \o sub_links(s, m.end + 1)))

(***************************************************************************)
(* The three converter scripts                                             *)
(***************************************************************************)
Framer     == "convert_framer_to_mdx"
Onboarding == "convert_onboarding_docs"
OwnersAdmin == "convert_owners_admin"
Scripts == {Framer, Onboarding, OwnersAdmin}

\* end index of the match of <img[^>]+> at o (s[o..] starts with <img), 0 if none
img_end(s, o) ==
    Let(Find(s, ">", o + 4), LAMBDA g : IF g > o + 4 THEN g ELSE 0)

\* re.search(r'alt="([^"]*)"', tag) of convert_owners_admin.replace_img
alt_of(tag) ==
    Let(Find(tag, "alt=\"", 1), LAMBDA a :
    Let(IF a = 0 THEN 0 ELSE Find(tag, "\"", a + 5), LAMBDA q :
    IF q = 0 THEN "" ELSE SubSeq(tag, a + 5, q - 1)))

\* replace_img(match) with image_index = k (0-based, as in the code)
replace_img(script, tag, image_tags, k) ==
    IF k < Len(image_tags)
    THEN IF script = OwnersAdmin
         THEN "\n\n![" \o alt_of(tag) \o "](" \o image_tags[k + 1] \o ")\n\n"
         ELSE "\n\n" \o image_tags[k + 1] \o "\n\n"
    ELSE tag

RECURSIVE sub_img(_, _, _, _, _)
\* re.sub(r'<img[^>]+>', replace_img, html_content)
sub_img(script, s, i, image_tags, k) ==
    Let(Find(s, "<img", i), LAMBDA o :
    IF o = 0 THEN From(s, i)
    ELSE Let(img_end(s, o), LAMBDA e :
         IF e = 0 THEN SubSeq(s, i, o) \o sub_img(script, s, o + 1, image_tags, k)
         ELSE SubSeq(s, i, o - 1) \o replace_img(script, SubSeq(s, o, e), image_tags, k)
              \o sub_img(script, s, e + 1, image_tags,
                         IF k < Len(image_tags) THEN k + 1 ELSE k)))

Hashes == <<"#", "##", "###", "####", "#####", "######">>

heading(s, n) ==
    LET h == SubSeq("123456", n, n) IN
    sub_pair(s, 1, "<h" \o h \o ">", "</h" \o h \o ">",
             "\n\n" \o Hashes[n] \o " ", "\n\n", TRUE)

\* "Convert headings": h3, h4 (h2..h6 in convert_onboarding_docs)
convert_headings(script, s) ==
    IF script = Onboarding
    THEN heading(heading(heading(heading(heading(s, 2), 3), 4), 5), 6)
    ELSE heading(heading(s, 3), 4)

\* the backquote of r'`\1`': a TLA+ string cannot hold that character, so the
\* model writes it as "^", a character that no text of the model contains
Backquote == "^"

\* strong, em, code and links, in the order of the code
convert_inline(s) ==
    sub_links(
        sub_pair(
            sub_pair(
                sub_pair(s, 1, "<strong>", "</strong>", "**", "**", FALSE),
                1, "<em>", "</em>", "*", "*", FALSE),
            1, "<code>", "</code>", Backquote, Backquote, FALSE),
        1)

RECURSIVE sub_strip_tag(_, _, _)
\* re.sub(r'</?NAME[^>]*>', '', s)
sub_strip_tag(s, i, name) ==
    Let(Find(s, "<", i), LAMBDA o :
    IF o = 0 THEN From(s, i)
    ELSE Let(IF At(s, o + 1, "/") THEN o + 2 ELSE o + 1, LAMBDA j :
         Let(IF At(s, j, name) THEN Find(s, ">", j + Len(name)) ELSE 0, LAMBDA g :
         IF g = 0 THEN SubSeq(s, i, o) \o sub_strip_tag(s, o + 1, name)
         ELSE SubSeq(s, i, o - 1) \o sub_strip_tag(s, g + 1, name))))

MaxDepth == 10

RECURSIVE process_lists(_)
RECURSIVE replace_li(_)
RECURSIVE sub_li(_, _)
RECURSIVE li_passes(_, _)

\* replace_li(match), content = match.group(2)
replace_li(content) ==
    IF Contains(content, "<ul>") \/ Contains(content, "<ol>")
    THEN "- " \o process_lists(content) \o "\n"
    ELSE "- " \o strip(unescape(convert_inline(
                    sub_pair(content, 1, "<p>", "</p>", "", "", TRUE)))) \o "\n"

\* re.sub(r'(<li[^>]*>)(.*?)(</li>)', replace_li, text, flags=re.DOTALL)
sub_li(s, i) ==
    Let(Find(s, "<li", i), LAMBDA o :
    IF o = 0 THEN From(s, i)
    ELSE Let(Find(s, ">", o + 3), LAMBDA g :
         Let(IF g = 0 THEN 0 ELSE Find(s, "</li>", g + 1), LAMBDA c :
         IF c = 0 THEN From(s, i)
         ELSE SubSeq(s, i, o - 1) \o replace_li(SubSeq(s, g + 1, c - 1))
              \o sub_li(s, c + 5))))

RECURSIVE li_passes_one_short(_, _)
\* the passes of a loop that runs one pass short: range(max_depth - 1, 0, -1)
li_passes_one_short(text, d) ==
    IF d <= 1 THEN text
    ELSE Let(sub_li(text, 1), LAMBDA t :
         IF t = text THEN text ELSE li_passes_one_short(t, d - 1))

\* for d in range(max_depth, 0, -1): text = re.sub(pattern, replace_li, text)
\* (a pass that finds no <li ...>...</li> leaves the text as it is, and so do
\* the passes after it)
li_passes(text, d) ==
    IF d = 0 THEN text
    ELSE Let(sub_li(text, 1), LAMBDA t :
         IF t = text THEN text ELSE li_passes(t, d - 1))

process_lists(text) ==
    sub_strip_tag(sub_strip_tag(li_passes(text, MaxDepth), 1, "ul"), 1, "ol")

\* re.sub(r'<p>(.*?)</p>', r'\1\n\n', s, flags=re.DOTALL)
convert_paragraphs(s) == sub_pair(s, 1, "<p>", "</p>", "", "\n\n", TRUE)

RECURSIVE sub_br(_, _)
\* re.sub(r'<br\s*/?>', '\n', s)  (the second sub, r'<br>', then finds nothing)
sub_br(s, i) ==
    Let(Find(s, "<br", i), LAMBDA o :
    IF o = 0 THEN From(s, i)
    ELSE Let(SkipSpace(s, o + 3), LAMBDA w :
         Let(IF At(s, w, "/") THEN w + 1 ELSE w, LAMBDA g :
         IF At(s, g, ">")
         THEN SubSeq(s, i, o - 1) \o "\n" \o sub_br(s, g + 1)
         ELSE SubSeq(s, i, o) \o sub_br(s, o + 1))))

RECURSIVE SkipNewlines(_, _)
SkipNewlines(s, i) == IF At(s, i, "\n") THEN SkipNewlines(s, i + 1) ELSE i

RECURSIVE sub_newlines(_, _)
\* re.sub(r'\n{3,}', '\n\n', s)
sub_newlines(s, i) ==
    Let(Find(s, "\n\n\n", i), LAMBDA o :
    IF o = 0 THEN From(s, i)
    ELSE SubSeq(s, i, o - 1) \o "\n\n" \o sub_newlines(s, SkipNewlines(s, o)))

RECURSIVE SkipBlank(_, _)
SkipBlank(s, i) ==
    IF At(s, i, " ") \/ At(s, i, "\t") THEN SkipBlank(s, i + 1) ELSE i

\* first index >= i of a space or a tab, 0 if none
find_blank(s, i) ==
    Let(Find(s, " ", i), LAMBDA a :
    Let(Find(s, "\t", i), LAMBDA b :
    IF a = 0 THEN b ELSE IF b = 0 THEN a ELSE IF a < b THEN a ELSE b))

RECURSIVE sub_trailing(_, _)
\* re.sub(r'[ \t]+\n', '\n', s)
sub_trailing(s, i) ==
    Let(find_blank(s, i), LAMBDA o :
    IF o = 0 THEN From(s, i)
    ELSE Let(SkipBlank(s, o), LAMBDA j :
         IF At(s, j, "\n") THEN SubSeq(s, i, o - 1) \o "\n" \o sub_trailing(s, j + 1)
         ELSE SubSeq(s, i, j - 1) \o sub_trailing(s, j)))

\* "Clean up extra whitespace"
cleanup_whitespace(s) == sub_trailing(sub_newlines(s, 1), 1)

RECURSIVE findall_tags(_, _)
\* set(re.findall(r'<[^>]+>', s))
findall_tags(s, i) ==
    Let(Find(s, "<", i), LAMBDA o :
    IF o = 0 THEN {}
    ELSE Let(Find(s, ">", o + 1), LAMBDA g :
         IF g = 0 THEN {}
         ELSE IF g = o + 1 THEN findall_tags(s, o + 1)
         ELSE {SubSeq(s, o, g)} \cup findall_tags(s, g + 1)))

AllowList == {"<p>", "</p>", "<br>", "<br/>", "<ul>", "</ul>", "<ol>", "</ol>",
              "<li>", "</li>"}

\* the test that makes the residual-tag loop `continue`
allowed(script, tag) ==
    \/ tag \in AllowList
    \/ script # OwnersAdmin /\ At(tag, 1, "<img")
    \/ script = Onboarding /\ At(tag, 1, "<iframe")

Marker(tag) == "<!-- HTML preserved: " \o tag \o " -->"

RECURSIVE preserve_tags(_, _, _)
\* for tag in set(remaining_html): ..., visiting the set in the order `order`
preserve_tags(script, s, order) ==
    IF order = <<>> THEN s
    ELSE LET tag == Head(order) IN
         preserve_tags(script,
                       IF allowed(script, tag) THEN s
                       ELSE str_replace(s, tag, Marker(tag), 1),
                       Tail(order))

RECURSIVE Orders(_)
\* the sequences that list every element of T once
Orders(T) ==
    IF T = {} THEN {<<>>}
    ELSE UNION {{<<t>> \o o : o \in Orders(T \ {t})} : t \in T}

\* the tags whose replacement meets another tag's: one's text occurs inside the
\* other's (both are replaced by markers)
interfering(script, T) ==
    {t \in T : /\ ~allowed(script, t)
               /\ \E u \in T \ {t} : /\ ~allowed(script, u)
                                      /\ (Contains(u, t) \/ Contains(t, u))}

RECURSIVE some_order(_)
some_order(T) ==
    IF T = {} THEN <<>>
    ELSE LET t == CHOOSE x \in T : TRUE IN <<t>> \o some_order(T \ {t})

\* The orders in which `for tag in set(remaining_html)` may visit the tags.  A
\* Python set of str has no fixed iteration order (str hashes change from one
\* interpreter run to the next).  Replacing one tag commutes with replacing
\* another unless one's text occurs inside the other's, so the result depends
\* on the relative order of the interfering tags only: these are taken in
\* every order, the others in one.
iteration_orders(script, T) ==
    LET I == interfering(script, T) IN
    {o \o some_order(T \ I) : o \in Orders(I)}

(***************************************************************************)
(* Tables and iframes (convert_onboarding_docs only)                       *)
(***************************************************************************)

RECURSIVE elem_findall(_, _, _)
\* re.findall(rf'<{name}[^>]*>(.*?)</{name}>', s, flags=re.DOTALL)
elem_findall(s, i, name) ==
    Let(Find(s, "<" \o name, i), LAMBDA o :
    IF o = 0 THEN <<>>
    ELSE Let(Find(s, ">", o + Len(name) + 1), LAMBDA g :
         Let(IF g = 0 THEN 0 ELSE Find(s, "</" \o name \o ">", g + 1), LAMBDA c :
         IF c = 0 THEN <<>>
         ELSE <<SubSeq(s, g + 1, c - 1)>> \o elem_findall(s, c + Len(name) + 3, name))))

\* "Clean up cell content"
clean_cell(cell_html) ==
    strip(unescape(
        sub_pair(
            sub_pair(
                sub_pair(
                    sub_pair(cell_html, 1, "<p>", "</p>", "", "", TRUE),
                    1, "<strong>", "</strong>", "**", "**", FALSE),
                1, "<em>", "</em>", "*", "*", FALSE),
            1, "<code>", "</code>", Backquote, Backquote, FALSE)))

\* the cells list built for one <tr>
row_cells(row_html) ==
    Let(Contains(row_html, "<th>") \/ Contains(row_html, "<th "), LAMBDA is_header :
    Let(elem_findall(row_html, 1, IF is_header THEN "th" ELSE "td"), LAMBDA cell_matches :
    [n \in 1..Len(cell_matches) |-> clean_cell(cell_matches[n])]))

RECURSIVE table_rows(_, _)
\* rows: the non-empty cells lists of the row matches, in order
table_rows(row_matches, n) ==
    IF n > Len(row_matches) THEN <<>>
    ELSE Let(row_cells(row_matches[n]), LAMBDA cells :
         (IF cells # <<>> THEN <<cells>> ELSE <<>>) \o table_rows(row_matches, n + 1))

RECURSIVE join(_, _, _)
\* sep.join(parts[n:])
join(sep, parts, n) ==
    IF n > Len(parts) THEN ""
    ELSE IF n = Len(parts) THEN parts[n]
    ELSE parts[n] \o sep \o join(sep, parts, n + 1)

md_row(cells) == "| " \o join(" | ", cells, 1) \o " |"

\* convert_table without its return for a table that has no rows
convert_table_no_return(table_html) ==
    Let(table_rows(elem_findall(table_html, 1, "tr"), 1), LAMBDA rows :
    IF rows = <<>> THEN "\n\n" \o "\n\n"
    ELSE Let(<<md_row(rows[1]), md_row([n \in 1..Len(rows[1]) |-> "---"])>>
             \o [n \in 1..(Len(rows) - 1) |-> md_row(rows[n + 1])],
             LAMBDA markdown_table :
         "\n\n" \o join("\n", markdown_table, 1) \o "\n\n"))

convert_table(table_html) ==
    Let(table_rows(elem_findall(table_html, 1, "tr"), 1), LAMBDA rows :
    IF rows = <<>> THEN table_html
    ELSE Let(<<md_row(rows[1]), md_row([n \in 1..Len(rows[1]) |-> "---"])>>
             \o [n \in 1..(Len(rows) - 1) |-> md_row(rows[n + 1])],
             LAMBDA markdown_table :
         "\n\n" \o join("\n", markdown_table, 1) \o "\n\n"))

RECURSIVE figure_end(_, _)
\* end of the lazy (.*?)</table>\s*</figure> searched from j on, 0 if none
figure_end(s, j) ==
    Let(Find(s, "</table>", j), LAMBDA c :
    IF c = 0 THEN 0
    ELSE Let(SkipSpace(s, c + 8), LAMBDA w :
         IF At(s, w, "</figure>") THEN w + 8 ELSE figure_end(s, c + 1)))

RECURSIVE sub_figure_tables(_, _)
\* re.sub(r'<figure>\s*<table[^>]*>(.*?)</table>\s*</figure>', convert_table, s, DOTALL)
sub_figure_tables(s, i) ==
    Let(Find(s, "<figure>", i), LAMBDA o :
    IF o = 0 THEN From(s, i)
    ELSE Let(SkipSpace(s, o + 8), LAMBDA w :
         Let(IF At(s, w, "<table") THEN Find(s, ">", w + 6) ELSE 0, LAMBDA g :
         Let(IF g = 0 THEN 0 ELSE figure_end(s, g + 1), LAMBDA e :
         IF e = 0 THEN SubSeq(s, i, o) \o sub_figure_tables(s, o + 1)
         ELSE SubSeq(s, i, o - 1) \o convert_table(SubSeq(s, o, e))
              \o sub_figure_tables(s, e + 1)))))

RECURSIVE sub_tables(_, _)
\* re.sub(r'<table[^>]*>(.*?)</table>', convert_table, s, flags=re.DOTALL)
sub_tables(s, i) ==
    Let(Find(s, "<table", i), LAMBDA o :
    IF o = 0 THEN From(s, i)
    ELSE Let(Find(s, ">", o + 6), LAMBDA g :
         Let(IF g = 0 THEN 0 ELSE Find(s, "</table>", g + 1), LAMBDA c :
         IF c = 0 THEN From(s, i)
         ELSE SubSeq(s, i, o - 1) \o convert_table(SubSeq(s, o, c + 7))
              \o sub_tables(s, c + 8))))

\* "Convert tables (handle both <table> and <figure><table> patterns)"
convert_tables(s) == sub_tables(sub_figure_tables(s, 1), 1)

\* the video-embedding hosts convert_iframe looks for
VideoHosts == {"youtube.com", "youtu.be"}

EmbedOpen(src) ==
    "<iframe\n  className=\"w-full aspect-video rounded-xl\"\n  src=\"" \o src
    \o "\"\n  title=\"YouTube video player\"\n  frameBorder=\"0\"\n"
    \o "  allow=\"accelerometer; autoplay; clipboard-write; encrypted-media; gyroscope; picture-in-picture\"\n"
    \o "  allowFullScreen\n>"

convert_iframe(whole, src) ==
    IF \E host \in VideoHosts : Contains(src, host)
    THEN EmbedOpen(src) \o "</iframe>"
    ELSE whole

RECURSIVE sub_iframes(_, _)
\* re.sub(r'<iframe[^>]+src="([^"]+)"[^>]*>.*?</iframe>', convert_iframe, s, DOTALL)
sub_iframes(s, i) ==
    Let(Find(s, "<iframe", i), LAMBDA o :
    IF o = 0 THEN From(s, i)
    ELSE Let(attr_match(s, o, "iframe", "src", "</iframe>", TRUE), LAMBDA m :
         IF ~m.ok THEN SubSeq(s, i, o) \o sub_iframes(s, o + 1)
         ELSE SubSeq(s, i, o - 1) \o convert_iframe(SubSeq(s, o, m.end), m.val)
              \o sub_iframes(s, m.end + 1)))

(***************************************************************************)
(* File names, image paths and image tags                                  *)
(***************************************************************************)
Upper == "ABCDEFGHIJKLMNOPQRSTUVWXYZ"
Lower == "abcdefghijklmnopqrstuvwxyz"
Digits == "0123456789"

\* c.lower() of one ASCII character
lower_char(c) ==
    Let(Find(Upper, c, 1), LAMBDA n : IF n = 0 THEN c ELSE SubSeq(Lower, n, n))

\* the regex class \w, for ASCII
IsWord(c) == Contains(Upper, c) \/ Contains(Lower, c) \/ Contains(Digits, c) \/ c = "_"

RECURSIVE lower_strip(_)
\* name.lower(), then re.sub(r'[^\w\s-]', '', name)
lower_strip(s) ==
    IF s = "" THEN ""
    ELSE IF Len(s) = 1
    THEN LET c == lower_char(s) IN
         IF IsWord(c) \/ IsSpace(c) \/ c = "-" THEN c ELSE ""
    ELSE LET h == Len(s) \div 2 IN
         lower_strip(SubSeq(s, 1, h)) \o lower_strip(From(s, h + 1))

RECURSIVE SkipDash(_, _)
SkipDash(s, i) ==
    IF i <= Len(s) /\ (IsSpace(SubSeq(s, i, i)) \/ SubSeq(s, i, i) = "-")
    THEN SkipDash(s, i + 1) ELSE i

RECURSIVE sub_dashes(_, _)
\* re.sub(r'[-\s]+', '-', name)
sub_dashes(s, i) ==
    IF i > Len(s) THEN ""
    ELSE LET j == SkipDash(s, i) IN
         IF j = i THEN SubSeq(s, i, i) \o sub_dashes(s, i + 1)
         ELSE "-" \o sub_dashes(s, j)

RECURSIVE lstrip_dash(_)
lstrip_dash(s) == IF At(s, 1, "-") THEN lstrip_dash(From(s, 2)) ELSE s

RECURSIVE rstrip_dash(_)
rstrip_dash(s) == IF At(s, Len(s), "-") THEN rstrip_dash(SubSeq(s, 1, Len(s) - 1)) ELSE s

\* sanitize_filename returning name without the final strip('-')
sanitize_filename_no_strip(name) == sub_dashes(lower_strip(name), 1)

\* sanitize_filename(name)
sanitize_filename(name) == rstrip_dash(lstrip_dash(sub_dashes(lower_strip(name), 1)))

\* the printable ASCII characters from code 32 to 95, in code order
Ascii32 == " !\"#$%&'()*+,-./0123456789:;<=>?@ABCDEFGHIJKLMNOPQRSTUVWXYZ[\\]^_"
\* and from code 97 to 126
Ascii97 == "abcdefghijklmnopqrstuvwxyz{|}~"
Hex == "0123456789ABCDEF"

\* ord(c) for printable ASCII
ord(c) ==
    Let(Find(Ascii32, c, 1), LAMBDA a : IF a # 0 THEN a + 31 ELSE Find(Ascii97, c, 1) + 96)

\* urllib.parse.quote of one character
quote_char(c, safe) ==
    IF IsWord(c) \/ c \in {".", "-", "~"} \/ Contains(safe, c) THEN c
    ELSE Let(ord(c), LAMBDA n :
         "%" \o SubSeq(Hex, (n \div 16) + 1, (n \div 16) + 1)
             \o SubSeq(Hex, (n % 16) + 1, (n % 16) + 1))

RECURSIVE quote(_, _)
\* urllib.parse.quote(s, safe=safe)
quote(s, safe) ==
    IF s = "" THEN ""
    ELSE IF Len(s) = 1 THEN quote_char(s, safe)
    ELSE LET h == Len(s) \div 2 IN
         quote(SubSeq(s, 1, h), safe) \o quote(From(s, h + 1), safe)

RECURSIVE split(_, _)
\* s.split(sep), sep one character
split(s, sep) ==
    Let(Find(s, sep, 1), LAMBDA o :
    IF o = 0 THEN <<s>> ELSE <<SubSeq(s, 1, o - 1)>> \o split(From(s, o + 1), sep))

RECURSIVE encoded_parts(_, _)
\* for part in parts[n:]: if part: encoded_parts.append(quote(part, safe=''))
encoded_parts(parts, n) ==
    IF n > Len(parts) THEN <<>>
    ELSE (IF parts[n] # "" THEN <<quote(parts[n], "")>> ELSE <<>>)
         \o encoded_parts(parts, n + 1)

\* create_image_tag(local_path); convert_owners_admin has none and keeps the path
create_image_tag(script, local_path) ==
    IF script = Framer
    THEN Let(split(local_path, "/"), LAMBDA parts :
         "<img src=\"" \o join("/", <<parts[1]>> \o encoded_parts(parts, 2), 1)
         \o "\" alt=\"\" />")
    ELSE IF script = Onboarding
    THEN "<img src=\"" \o quote(local_path, "/") \o "\" alt=\"\" />"
    ELSE local_path

FramerImages == "https://framerusercontent.com/images/"

\* end of the match of  <img[^>]+src="(https://framerusercontent\.com/images/[^"]+)"
\* at o when [^>]+ ends right before k; 0 if it does not match there
extract_at(s, k) ==
    Let(IF At(s, k, "src=\"") /\ At(s, k + 5, FramerImages)
        THEN Find(s, "\"", k + 5 + Len(FramerImages)) ELSE 0, LAMBDA q :
    IF q > k + 5 + Len(FramerImages) THEN q ELSE 0)

RECURSIVE extract_images(_, _)
\* re.findall(pattern, html_content), from index i on
extract_images(s, i) ==
    Let(Find(s, "<img", i), LAMBDA o :
    IF o = 0 THEN <<>>
    ELSE Let(Find(s, ">", o + 4), LAMBDA g0 :
         Let({k \in (o + 5)..(IF g0 = 0 THEN Len(s) ELSE g0 - 1) : extract_at(s, k) # 0},
             LAMBDA K :
         IF K = {} THEN extract_images(s, o + 1)
         ELSE Let(CHOOSE x \in K : \A y \in K : y <= x, LAMBDA k :
              Let(extract_at(s, k), LAMBDA q :
              <<SubSeq(s, k + 5, q - 1)>> \o extract_images(s, q + 1))))))

(***************************************************************************)
(* html_to_markdown: the steps in the order the code runs them             *)
(***************************************************************************)
Steps(script) ==
    IF script = Onboarding
    THEN <<"replace_img", "headings", "lists", "paragraphs", "inline", "tables",
           "iframes", "br", "whitespace", "residual", "unescape", "strip", "write">>
    ELSE <<"replace_img", "headings", "lists", "paragraphs", "inline",
           "br", "whitespace", "residual", "unescape", "strip", "write">>

\* the statement that follows `step`
next_step(script, step) ==
    LET S == Steps(script)
        n == CHOOSE m \in 1..Len(S) : S[m] = step
    IN S[n + 1]

\* one step of html_to_markdown applied to the text s
apply_step(script, step, s, image_tags, order) ==
    CASE step = "replace_img" -> sub_img(script, s, 1, image_tags, 0)
      [] step = "headings"    -> convert_headings(script, s)
      [] step = "lists"       -> process_lists(s)
      [] step = "paragraphs"  -> convert_paragraphs(s)
      [] step = "inline"      -> convert_inline(s)
      [] step = "tables"      -> convert_tables(s)
      [] step = "iframes"     -> sub_iframes(s, 1)
      [] step = "br"          -> sub_br(s, 1)
      [] step = "whitespace"  -> cleanup_whitespace(s)
      [] step = "residual"    -> preserve_tags(script, s, order)
      [] step = "unescape"    -> unescape(s)
      [] step = "strip"       -> strip(s)

RECURSIVE run(_, _, _, _, _, _)
\* the statements of html_to_markdown from `step` up to, not including, `stop`
run(script, step, stop, s, image_tags, order) ==
    IF step = stop THEN s
    ELSE Let(apply_step(script, step, s, image_tags, order), LAMBDA t :
         IF t = s THEN run(script, next_step(script, step), stop, s, image_tags, order)
         ELSE run(script, next_step(script, step), stop, t, image_tags, order))

\* html_to_markdown(html_content, image_tags) when the loop over
\* set(remaining_html) visits the tags in the order `order`
html_to_markdown(script, html, image_tags, order) ==
    run(script, "replace_img", "write", html, image_tags, order)

\* set(remaining_html) of that call
remaining_html(script, html, image_tags) ==
    findall_tags(run(script, "replace_img", "residual", html, image_tags, <<>>), 1)

\* every value html_to_markdown(html_content, image_tags) can return
outputs(script, html, image_tags) ==
    {html_to_markdown(script, html, image_tags, o) :
        o \in iteration_orders(script, remaining_html(script, html, image_tags))}

(***************************************************************************)
(* The source documents                                                    *)
(***************************************************************************)
ImgA == "<img src=\"" \o FramerImages \o "a.png\">"
ImgB == "<img alt=\"b\" src=\"" \o FramerImages \o "b.png\" />"
ImgE == "<img src=\"https://example.com/e.png\">"

\* what the running text of a body is made of
Fragments ==
    {"A", ImgA, ImgB, ImgE, "<img>", "<p>", "<video>clip</video>",
     "&lt;img src=\"x\"&gt;", "&lt;video&gt;", "<div <span>", "<span>"}

MaxFragments == 2

RECURSIVE Concats(_)
\* the concatenations of at most n fragments
Concats(n) ==
    IF n = 0 THEN {""}
    ELSE LET C == Concats(n - 1) IN C \cup {c \o f : c \in C, f \in Fragments}

\* running text at top level, in a paragraph, in a list item
Wrappers == {<<"", "">>, <<"<p>", "</p>">>, <<"<li>", "</li>">>}
Wrapped == {w[1] \o c \o w[2] : w \in Wrappers, c \in Concats(MaxFragments)}

MaxNesting == 2

RECURSIVE Lists(_)
\* the well-nested <ul> lists of one or two items, nested up to MaxNesting deep;
\* the items at level 1 read A, those at level 2 B, ...
Lists(level) ==
    LET text == SubSeq(Upper, level, level)
        sub == {""} \cup (IF level < MaxNesting THEN Lists(level + 1) ELSE {})
        items == {"<li>" \o text \o l \o "</li>" : l \in sub}
    IN {"<ul>" \o i \o "</ul>" : i \in items}
       \cup {"<ul>" \o i \o j \o "</ul>" : i \in items, j \in items}

NestedLists == Lists(1)

CellTexts == {"Name", "<p>a</p><p>b</p>", "<strong>y</strong>"}

\* the rows of one or two cells <tag>..</tag>
Cells(tag) ==
    LET one == {"<" \o tag \o ">" \o c \o "</" \o tag \o ">" : c \in CellTexts} IN
    one \cup {c \o d : c \in one, d \in one}

\* the table of the specification's example: header Name, Age and data Ann, 30
TableExample ==
    "<table><tr><th>Name</th><th>Age</th></tr><tr><td>Ann</td><td>30</td></tr></table>"

\* rows that mix <th> and <td> cells (a row header before the data)
MixedRows == {"<th>Name</th><td>Ann</td>", "<td>Ann</td><th>Name</th>"}

\* <table> blocks without a row that has cells
EmptyTables == {"<table></table>", "<table><tr></tr></table>",
                "<table><caption>A</caption></table>"}

\* tables of one or two rows; the first row may be a header row
Tables ==
    {"<table><tr>" \o h \o "</tr>" \o r \o "</table>" :
        h \in Cells("th") \cup Cells("td") \cup MixedRows,
        r \in {""} \cup {"<tr>" \o c \o "</tr>" : c \in Cells("td")}}
    \cup {TableExample} \cup EmptyTables

\* str(n) for the image numbers of the model
str(n) == SubSeq(Digits, n + 1, n + 1)

\* the heading levels of <h2> .. <h6>
Levels == 2..6

\* a heading of each level, alone or between running text
Headings ==
    {pre \o "<h" \o str(n) \o ">T</h" \o str(n) \o ">" \o post :
        n \in Levels, pre \in {"", "A"}, post \in {"", "A"}}

\* the inline elements <strong>, <em>, <code> around text
InlineNames == {"strong", "em", "code"}
inline(name, text) == "<" \o name \o ">" \o text \o "</" \o name \o ">"

\* inline elements alone, nested in one another (the same element included),
\* repeated, and a link
Inlines ==
    {inline(t, "a") : t \in InlineNames}
    \cup {inline(t, inline(u, "a")) : t \in InlineNames, u \in InlineNames}
    \cup {inline(t, "a") \o inline(u, "b") : t \in InlineNames, u \in InlineNames}
    \cup {"<a href=\"u\">t</a>", "<a href=\"u\"><strong>t</strong></a>"}

MaxBlanks == 4

RECURSIVE Blanks(_)
\* the runs of at most n newlines, spaces and tabs
Blanks(n) ==
    IF n = 0 THEN {""}
    ELSE LET B == Blanks(n - 1) IN B \cup {b \o c : b \in B, c \in {"\n", " ", "\t"}}

\* two words with white space between them
Spacings == {"a" \o w \o "b" : w \in Blanks(MaxBlanks)}

\* entity-escaped text: an escaped tag, and an escaped entity
EntityTexts == {"&lt;b&gt;", "&amp;lt;"}

\* the places an entity text may stand in: a paragraph, a list item, a table cell
Places == {<<"<p>", "</p>">>, <<"<li>", "</li>">>,
           <<"<table><tr><td>", "</td></tr></table>">>}
Escaped == {w[1] \o e \o w[2] : w \in Places, e \in EntityTexts}

RECURSIVE Chain(_, _)
\* a list nested d deep, one item per level, the item at level n reading the
\* n-th capital letter
Chain(n, d) ==
    IF n > d THEN ""
    ELSE "<ul><li>" \o SubSeq(Upper, n, n) \o Chain(n + 1, d) \o "</li></ul>"

\* lists nested as deep as max_depth, and one level deeper
DeepLists == {Chain(1, MaxDepth), Chain(1, MaxDepth + 1)}

\* sources of an <iframe>: at a video host, at another host, and at another
\* host with a video host's name further on in the URL
IframeSources ==
    {"https://www.youtube.com/embed/x", "https://youtu.be/x", "https://vimeo.com/x",
     "https://example.com/?u=youtube.com"}

iframe(src) == "<iframe src=\"" \o src \o "\"></iframe>"

Iframes == {iframe(src) : src \in IframeSources}

Bodies ==
    Wrapped \cup NestedLists \cup Tables \cup Headings \cup Inlines \cup Spacings
    \cup Escaped \cup DeepLists \cup Iframes

Titles == {"Q & A"}

\* load_file_mapping(...)["Measuring Performance.txt"] / FILE_MAPPING[...]
category_path == "Owners & Administration"
subcategory_path == "Reporting"

\* f"/images/{category_path}/{subcategory_path}/{sanitized_title}"
image_base_path(script, sanitized_title) ==
    IF script = Onboarding
    THEN "/images/Onboarding-Documents/" \o sanitized_title
    ELSE "/images/" \o category_path \o "/" \o subcategory_path \o "/" \o sanitized_title

\* f"{image_base_path}/{sanitized_title}-{i}.png"
image_path_for_mdx(script, ttl, n) ==
    LET st == sanitize_filename(ttl) IN
    image_base_path(script, st) \o "/" \o st \o "-" \o str(n) \o ".png"

\* what process_file appends to image_tags when download_image returns False
fallback_tag(script, url) ==
    IF script = OwnersAdmin THEN url ELSE "<img src=\"" \o url \o "\" alt=\"\" />"

\* the MDX file: path and text
mdx_file(script, ttl, markdown_content) ==
    [path |-> (IF script = Onboarding THEN "Onboarding-Documents/"
               ELSE category_path \o "/" \o subcategory_path \o "/")
              \o sanitize_filename(ttl) \o ".mdx",
     text |-> "---\ntitle: \"" \o ttl \o "\"\n---\n\n" \o markdown_content]

(***************************************************************************)
(* load_file_mapping, and process_file as one step of a batch              *)
(***************************************************************************)
\* an entry of a mapping
entry(category, subcategory, ttl) ==
    [category |-> category, subcategory |-> subcategory, title |-> ttl]

\* the keys of `mappings`, in the order the dict literal lists them
Categories == <<"owners-admin", "provider", "front-office", "billing">>

\* the dict literal of load_file_mapping: of each category its first entries
\* and its last two
mappings ==
    [c \in {Categories[n] : n \in DOMAIN Categories} |->
        IF c = "owners-admin" THEN
            ("Getting Started with Your Practice.txt" :>
                entry("Owners & Administration", "My Practice",
                      "Getting Started with Your Practice"))
            @@ ("Your Athelas Invoice.txt" :>
                entry("Owners & Administration", "My Practice", "Your Athelas Invoice"))
            @@ ("Measuring Performance.txt" :>
                entry("Owners & Administration", "Reporting", "Measuring Performance"))
        ELSE IF c = "provider" THEN
            ("Getting Started with Chart Notes.txt" :>
                entry("Provider Workflows", "Chart Notes", "Getting Started with Chart Notes"))
            @@ ("Athelas Assistant Common Functionalities.txt" :>
                entry("Provider Workflows", "Athelas Assistant",
                      "Athelas Assistant Common Functionalities"))
            @@ ("Athelas Assistant Best Practices.txt" :>
                entry("Provider Workflows", "Athelas Assistant",
                      "Athelas Assistant Best Practices"))
        ELSE IF c = "front-office" THEN
            ("Getting started with the Calendar.txt" :>
                entry("Front Office Workflows", "Calendar",
                      "Getting started with the Calendar"))
            @@ ("Getting Started With Your RCM Assistant.txt" :>
                entry("Front Office Workflows", "Athelas Assistant",
                      "Getting Started With Your RCM Assistant"))
            @@ ("RCM AI Prompt Library.txt" :>
                entry("Front Office Workflows", "Athelas Assistant", "RCM AI Prompt Library"))
        ELSE
            ("The Denials Analysis Page.txt" :>
                entry("Billing Workflows", "Analytics", "The Denials Analysis Page"))
            @@ ("Getting Started With Your RCM Assistant.txt" :>
                entry("Billing Workflows", "Athelas Assistant",
                      "Getting Started With Your RCM Assistant"))
            @@ ("RCM AI Prompt Library.txt" :>
                entry("Billing Workflows", "Athelas Assistant", "RCM AI Prompt Library"))]

\* all_mappings.update(cat_mappings)
update(all_mappings, cat_mappings) ==
    [f \in DOMAIN all_mappings \cup DOMAIN cat_mappings |->
        IF f \in DOMAIN cat_mappings THEN cat_mappings[f] ELSE all_mappings[f]]

RECURSIVE merged(_)
\* all_mappings after the loop has visited the first n values of `mappings`
merged(n) == IF n = 0 THEN <<>> ELSE update(merged(n - 1), mappings[Categories[n]])

\* load_file_mapping(category)
load_file_mapping(category) ==
    IF category = "all" THEN merged(Len(Categories))
    ELSE IF category \in DOMAIN mappings THEN mappings[category]
    ELSE <<>>

\* FILE_MAPPING of convert_owners_admin / load_file_mapping("owners-admin")
file_mapping == load_file_mapping("owners-admin")

\* file_mapping.keys() in the order of the dict literal
MappingKeys ==
    <<"Getting Started with Your Practice.txt", "Your Athelas Invoice.txt",
      "Measuring Performance.txt">>

\* f.readlines() of the source files of a batch
FileLines ==
    {<<>>,
     <<"Q & A">>,
     <<"Q & A\n", "\n">>,
     <<"Q & A\n", "\n", "<p>x</p>\n">>,
     <<"Q A\n", "\n", ImgA \o "\n", "A">>}

\* what there is at the path of a source document: no file, a file that is
\* not UTF-8, or a file of some lines
SourceFiles ==
    {[exists |-> FALSE, decodes |-> TRUE, lines |-> <<>>],
     [exists |-> TRUE, decodes |-> FALSE, lines |-> <<>>]}
    \cup {[exists |-> TRUE, decodes |-> TRUE, lines |-> l] : l \in FileLines}

\* the documents of a batch: each file name once, in the order `names`
Documents(names) ==
    {d \in [DOMAIN names -> [filename : {names[n] : n \in DOMAIN names}, file : SourceFiles]] :
        \A n \in DOMAIN names : d[n].filename = names[n]}

\* the orders in which input_dir.glob("*.txt") can list the files that are there
GlobOrders ==
    {o \in UNION {[1..n -> {MappingKeys[k] : k \in DOMAIN MappingKeys}] : n \in DOMAIN MappingKeys} :
        \A i, j \in DOMAIN o : i # j => o[i] # o[j]}

\* Path(output_dir) / category_path / subcategory_path, and the same under images
base_path(script, filename) ==
    IF script = Onboarding THEN "Onboarding-Documents"
    ELSE file_mapping[filename].category \o "/" \o file_mapping[filename].subcategory

\* mdx_path = output_path / f"{sanitized_title}.mdx"
mdx_path(script, filename, ttl) ==
    base_path(script, filename) \o "/" \o sanitize_filename(ttl) \o ".mdx"

\* image_path_for_mdx of the n-th image of the document
image_path(script, filename, ttl, n) ==
    "/images/" \o base_path(script, filename) \o "/" \o sanitize_filename(ttl)
    \o "/" \o sanitize_filename(ttl) \o "-" \o str(n) \o ".png"

\* process_file returning before it has read or written anything
returns(script, value) ==
    [raised |-> FALSE, returned |-> IF script = OwnersAdmin THEN "None" ELSE value,
     saved |-> {}, mdx |-> {}]

\* process_file left by an exception
raises == [raised |-> TRUE, returned |-> "None", saved |-> {}, mdx |-> {}]

\* the download loop and the rest of process_file, download_image returning ok[n]
\* for the n-th URL
converted(script, filename, ttl, html, image_urls, ok) ==
    Let([n \in DOMAIN image_urls |->
            IF ok[n] THEN create_image_tag(script, image_path(script, filename, ttl, n))
            ELSE fallback_tag(script, image_urls[n])], LAMBDA image_tags :
    {[raised |-> FALSE,
      returned |-> IF script = OwnersAdmin THEN "None" ELSE "True",
      saved |-> {image_path(script, filename, ttl, n) : n \in {k \in DOMAIN image_urls : ok[k]}},
      mdx |-> {[path |-> mdx_path(script, filename, ttl),
                text |-> mdx_file(script, ttl, markdown_content).text]}] :
        markdown_content \in outputs(script, html, image_tags)})

\* process_file(input_file, ...): every way the call can end
process_file(script, filename, file) ==
    IF script # Onboarding /\ filename \notin DOMAIN file_mapping
    THEN {returns(script, "False")}
    ELSE IF ~file.exists \/ ~file.decodes THEN {raises}
    ELSE IF script # OwnersAdmin /\ Len(file.lines) < 2 THEN {returns(script, "False")}
    ELSE IF file.lines = <<>> THEN {raises}
    ELSE Let(join("", file.lines, 3), LAMBDA html :
         Let(extract_images(html, 1), LAMBDA image_urls :
         UNION {converted(script, filename, strip(file.lines[1]), html, image_urls, ok) :
                   ok \in [DOMAIN image_urls -> BOOLEAN]}))

\* the files on disk after open(mdx_path, 'w') has written `new`
written(files, new) ==
    {f \in files : \A w \in new : f.path # w.path} \cup new

(***************************************************************************)
(* The frontmatter title: fix_navigation_labels and fix_subbar_titles      *)
(***************************************************************************)
\* the regex class ['"]
IsQuote(c) == c \in {"'", "\""}

RECURSIVE frontmatter_from(_, _)
\* re.search(r'^---\s*\n(.*?)\n---', content, re.DOTALL) when \s* has given
\* back characters down to the \n at k or before it: <<k, e>> with k the
\* index of the \n of the pattern and e the index of the \n that closes the
\* block; <<>> when there is no match
frontmatter_from(content, k) ==
    IF k < 4 THEN <<>>
    ELSE Let(IF SubSeq(content, k, k) = "\n" THEN Find(content, "\n---", k + 1) ELSE 0,
             LAMBDA e :
         IF e # 0 THEN <<k, e>> ELSE frontmatter_from(content, k - 1))

\* the match of the frontmatter block at the start of content
frontmatter_match(content) ==
    IF At(content, 1, "---") THEN frontmatter_from(content, SkipSpace(content, 4) - 1)
    ELSE <<>>

RECURSIVE close_quote(_, _)
\* (.*?)['"] from index i: the index of the first quote on the line, 0 if none
close_quote(s, i) ==
    IF i > Len(s) \/ SubSeq(s, i, i) = "\n" THEN 0
    ELSE IF IsQuote(SubSeq(s, i, i)) THEN i
    ELSE close_quote(s, i + 1)

\* the match of  title:\s*['"](.*?)['"]  at the line start i: <<i, q, c>>
\* with q and c the indices of the two quotes; <<>> when it does not match
title_match_at(s, i) ==
    IF ~At(s, i, "title:") THEN <<>>
    ELSE Let(SkipSpace(s, i + 6), LAMBDA q :
         IF q > Len(s) \/ ~IsQuote(SubSeq(s, q, q)) THEN <<>>
         ELSE Let(close_quote(s, q + 1), LAMBDA c :
              IF c = 0 THEN <<>> ELSE <<i, q, c>>))

RECURSIVE title_match_from(_, _)
\* re.search(r'^title:\s*[\'"](.*?)[\'"]', frontmatter, re.MULTILINE), the
\* search starting at the line start i
title_match_from(s, i) ==
    IF i > Len(s) THEN <<>>
    ELSE Let(title_match_at(s, i), LAMBDA m :
         IF m # <<>> THEN m
         ELSE Let(Find(s, "\n", i), LAMBDA n :
              IF n = 0 THEN <<>> ELSE title_match_from(s, n + 1)))

\* extract_frontmatter_title(content): <<>> for None, <<t>> for the title t
extract_frontmatter_title(content) ==
    Let(frontmatter_match(content), LAMBDA fm :
    IF fm = <<>> THEN <<>>
    ELSE Let(SubSeq(content, fm[1] + 1, fm[2] - 1), LAMBDA frontmatter :
         Let(title_match_from(frontmatter, 1), LAMBDA m :
         IF m = <<>> THEN <<>> ELSE <<SubSeq(frontmatter, m[2] + 1, m[3] - 1)>>)))

\* convert_page_to_object / update_navigation_with_labels: the label the
\* page gets, <<>> when it gets none
label(ttl) == IF ttl = <<>> \/ ttl = <<"">> THEN <<>> ELSE ttl

RECURSIVE sub_title(_, _, _)
\* re.sub(r'^title:\s*[\'"](.*?)[\'"]', f"title: '{new_title}'", frontmatter,
\* flags=re.MULTILINE) from the line start i on, for a new_title without
\* backslashes
sub_title(s, i, new_title) ==
    Let(title_match_from(s, i), LAMBDA m :
    IF m = <<>> THEN From(s, i)
    ELSE SubSeq(s, i, m[1] - 1) \o "title: '" \o new_title \o "'"
         \o Let(Find(s, "\n", m[3] + 1), LAMBDA n :
            IF n = 0 THEN From(s, m[3] + 1)
            ELSE SubSeq(s, m[3] + 1, n) \o sub_title(s, n + 1, new_title)))

\* update_frontmatter_title(content, new_title)
update_frontmatter_title(content, new_title) ==
    Let(frontmatter_match(content), LAMBDA fm :
    IF fm = <<>> THEN content
    ELSE "---\n" \o sub_title(SubSeq(content, fm[1] + 1, fm[2] - 1), 1, new_title)
         \o "\n---" \o From(content, fm[2] + 4))

\* process_mdx_file(file_path, correct_title) of fix_subbar_titles on a file
\* that holds content: the content afterwards and the value returned
process_mdx_file(content, correct_title) ==
    Let(extract_frontmatter_title(content), LAMBDA current_title :
    IF current_title = <<correct_title>> \/ current_title = <<>>
    THEN [content |-> content, returned |-> FALSE]
    ELSE [content |-> update_frontmatter_title(content, correct_title), returned |-> TRUE])

\* titles of TITLE_MAPPING
TITLE_MAPPING ==
    {"Measuring Performance", "Manage Staff & Permissions", "View Patient's Appointments",
     "Download EDI's in Bulk"}

\* the first line of a source document
FileTitles == TITLE_MAPPING \cup {"Q & A", "Say \"Hi\""}

\* what html_to_markdown has returned for the document
Markdowns == {"", "A\n\n---\n\ntitle: \"B\""}

(***************************************************************************)
(* fix_image_paths and fix_image_paths_encoded                             *)
(***************************************************************************)
FixImagePaths == "fix_image_paths"
FixImagePathsEncoded == "fix_image_paths_encoded"
Fixers == {FixImagePaths, FixImagePathsEncoded}

\* fix_image_paths_encoded: encode_spaces, on the path that group(1) holds
encode_spaces(path) ==
    Let(split(path, "/"), LAMBDA parts :
    "<img src=\"" \o join("/", <<parts[1]>> \o encoded_parts(parts, 2), 1) \o "\" alt=\"\" />")

\* [quote(part, safe='') for part in parts[n:]]
quoted_parts(parts) == [n \in DOMAIN parts |-> quote(parts[n], "")]

\* fix_image_paths: encode_path, on the path that group(1) holds
encode_path(path) ==
    "![](/images/"
    \o join("/", quoted_parts(split(str_replace(path, "/images/", "", 1), "/")), 1) \o ")"

RECURSIVE sub_img_tags(_, _)
\* re.sub(r'<img src="(/images/[^"]+)" alt="" />', encode_spaces, content), from i on
sub_img_tags(s, i) ==
    Let(Find(s, "<img src=\"/images/", i), LAMBDA o :
    IF o = 0 THEN From(s, i)
    ELSE Let(Find(s, "\"", o + 18), LAMBDA q :
         IF q > o + 18 /\ At(s, q, "\" alt=\"\" />")
         THEN SubSeq(s, i, o - 1) \o encode_spaces(SubSeq(s, o + 10, q - 1))
              \o sub_img_tags(s, q + 11)
         ELSE SubSeq(s, i, o) \o sub_img_tags(s, o + 1)))

RECURSIVE sub_md_images(_, _)
\* re.sub(r'!\[\]\((/images/[^)]+)\)', encode_path, content), from i on
sub_md_images(s, i) ==
    Let(Find(s, "![](/images/", i), LAMBDA o :
    IF o = 0 THEN From(s, i)
    ELSE Let(Find(s, ")", o + 12), LAMBDA q :
         IF q > o + 12
         THEN SubSeq(s, i, o - 1) \o encode_path(SubSeq(s, o + 4, q - 1))
              \o sub_md_images(s, q + 1)
         ELSE SubSeq(s, i, o) \o sub_md_images(s, o + 1)))

\* fix_image_paths_in_file(file_path) of the script `fixer` on a file that
\* holds content: the content afterwards and the value returned
fix_image_paths_in_file(fixer, content) ==
    Let(IF fixer = FixImagePathsEncoded THEN sub_img_tags(content, 1)
        ELSE sub_md_images(content, 1), LAMBDA new_content :
    [content |-> new_content, returned |-> new_content # content])

\* how the image reference of a file was written: by create_image_tag of a
\* converter, as a tag with the path as it is, or as a Markdown image
\* (html_to_markdown of convert_owners_admin)
TagKinds == {Framer, Onboarding, "raw", "markdown"}

\* the reference of that kind to a local path
image_reference(kind, local_path) ==
    IF kind \in {Framer, Onboarding} THEN create_image_tag(kind, local_path)
    ELSE IF kind = "raw" THEN "<img src=\"" \o local_path \o "\" alt=\"\" />"
    ELSE "![](" \o local_path \o ")"

\* image_path_for_mdx of the converters, and a path with a percent sign
LocalPaths ==
    {image_path_for_mdx(s, "Q & A", 1) : s \in {Framer, Onboarding}}
    \cup {"/images/My Practice/100%.png", "/images/a/images/b.png"}

(***************************************************************************)
(* download_and_update_images and organize_docs: image references          *)
(***************************************************************************)
DownloadAndUpdate == "download_and_update_images"
OrganizeDocs == "organize_docs"

RECURSIVE finditer(_, _)
\* download_and_update_images: group(1) of each match of
\* re.finditer(r'!\[\]\((https://framerusercontent\.com/images/[^)]+)\)', content)
\* from index i on
finditer(s, i) ==
    Let(Find(s, "![](" \o FramerImages, i), LAMBDA o :
    IF o = 0 THEN <<>>
    ELSE Let(Find(s, ")", o + 4 + Len(FramerImages)), LAMBDA q :
         IF q > o + 4 + Len(FramerImages)
         THEN <<SubSeq(s, o + 4, q - 1)>> \o finditer(s, q + 1)
         ELSE IF q = 0 THEN <<>> ELSE finditer(s, o + 1)))

\* s.replace(old, new, 1)
replace_first(s, old, new) ==
    Let(Find(s, old, 1), LAMBDA o :
    IF o = 0 THEN s ELSE SubSeq(s, 1, o - 1) \o new \o From(s, o + Len(old)))

\* download_and_update_images: local_image_url of image n of
\* FILE_MAPPING["measuring-performance.mdx"]
local_image_url(n) ==
    Let(sanitize_filename("Measuring Performance"), LAMBDA sanitized_title :
    "/images/Owners & Administration/Reporting/" \o sanitized_title \o "/"
    \o sanitized_title \o "-" \o str(n) \o ".png")

RECURSIVE title_chars(_)
\* organize_docs.sanitize_title: lower(), replace(" ", "-"), and
\* re.sub(r'[^a-z0-9\-]', '', title)
title_chars(s) ==
    IF s = "" THEN ""
    ELSE Let(lower_char(SubSeq(s, 1, 1)), LAMBDA c :
         (IF c = " " THEN "-"
          ELSE IF Contains(Lower, c) \/ Contains(Digits, c) \/ c = "-" THEN c
          ELSE "") \o title_chars(From(s, 2)))

RECURSIVE sub_hyphens(_, _)
\* re.sub(r'-+', '-', title), from index i on
sub_hyphens(s, i) ==
    IF i > Len(s) THEN ""
    ELSE IF At(s, i, "-") /\ At(s, i + 1, "-") THEN sub_hyphens(s, i + 1)
    ELSE SubSeq(s, i, i) \o sub_hyphens(s, i + 1)

\* organize_docs.sanitize_title(title)
sanitize_title(ttl) == rstrip_dash(lstrip_dash(sub_hyphens(title_chars(ttl), 1)))

\* organize_docs: the match of  src="([^"]+)"  at k: the index of the closing
\* quote, 0 if it does not match there
src_at(s, k) ==
    Let(IF At(s, k, "src=\"") THEN Find(s, "\"", k + 5) ELSE 0, LAMBDA q :
    IF q > k + 5 THEN q ELSE 0)

RECURSIVE findall_src(_, _)
\* organize_docs: re.findall(r'<img[^>]+src="([^"]+)"', content), from index i on
findall_src(s, i) ==
    Let(Find(s, "<img", i), LAMBDA o :
    IF o = 0 THEN <<>>
    ELSE Let(Find(s, ">", o + 4), LAMBDA g0 :
         Let({k \in (o + 5)..(IF g0 = 0 THEN Len(s) ELSE g0 - 1) : src_at(s, k) # 0},
             LAMBDA K :
         IF K = {} THEN findall_src(s, o + 1)
         ELSE Let(CHOOSE x \in K : \A y \in K : y <= x, LAMBDA k :
              Let(src_at(s, k), LAMBDA q :
              <<SubSeq(s, k + 5, q - 1)>> \o findall_src(s, q + 1))))))

\* organize_docs.extract_image_urls(content)
extract_image_urls(content) ==
    SelectSeq(findall_src(content, 1), LAMBDA url : Contains(url, "framerusercontent.com"))

RECURSIVE update_image_references(_, _, _, _)
\* organize_docs.update_image_references(content, image_urls, sanitized_title),
\* the loop from its n-th turn on
update_image_references(updated_content, urls, sanitized_title, n) ==
    IF n > Len(urls) THEN updated_content
    ELSE update_image_references(
             str_replace(updated_content, urls[n],
                         "/images/" \o sanitized_title \o "/" \o sanitized_title \o "-"
                         \o str(n) \o ".png", 1),
             urls, sanitized_title, n + 1)

\* the image URLs of a document: one is a prefix of another
ImageUrls == {FramerImages \o "a", FramerImages \o "ab"}

MaxImages == 2

\* the lists of at most n image URLs
UrlLists(n) == UNION {[1..k -> ImageUrls] : k \in 0..n}

\* the reference to an image as the documents of each script hold it
reference(tool, url) ==
    IF tool = DownloadAndUpdate THEN "![](" \o url \o ")" ELSE "<img src=\"" \o url \o "\">"

RECURSIVE document(_, _, _)
\* a document with one numbered line per image reference, from the n-th on
document(tool, refs, n) ==
    IF n > Len(refs) THEN "End"
    ELSE str(n) \o ":" \o reference(tool, refs[n]) \o "\n" \o document(tool, refs, n + 1)

(***************************************************************************)
(* process_file as a state machine                                         *)
(***************************************************************************)
VARIABLES
    script,        \* which converter script runs
    title,         \* lines[0].strip()
    body,          \* ''.join(lines[2:]) of the source file
    html_content,  \* the text being converted
    image_urls,    \* extract_images(html_content)
    image_tags,    \* one entry per image URL handled so far
    saved,         \* the local image paths download_image has written
    order,         \* the order in which the residual loop visited the tags
    mdx,           \* the MDX files written: a set of [path, text]
    pc,            \* the statement process_file is at
    txt_files,     \* main: the documents its loop iterates over
    attempted,     \* main: the documents its loop has visited so far
    processed,     \* main: the counter of the calls that returned True
    args,          \* a maintenance script: the arguments of the call at hand
    content,       \* a maintenance script: the text of the file it works on
    returned       \* a maintenance script: what its last call returned

\* the state of main, which a single call of process_file leaves alone
main_vars == <<txt_files, attempted, processed>>

\* no batch is running
NoBatch == txt_files = <<>> /\ attempted = <<>> /\ processed = 0

\* the state of the scripts that are run on the MDX files afterwards
call_vars == <<args, content, returned>>

\* no such script is running
NoCall == args = <<>> /\ content = "" /\ returned = <<>>

vars == <<script, title, body, html_content, image_urls, image_tags, saved, order, mdx, pc,
          main_vars, call_vars>>

Init ==
    /\ script \in Scripts
    /\ title \in Titles
    /\ body \in Bodies
    /\ html_content = ""
    /\ image_urls = <<>>
    /\ image_tags = <<>>
    /\ saved = {}
    /\ order = <<>>
    /\ mdx = {}
    /\ pc = "read"
    /\ NoBatch
    /\ NoCall

\* lines = f.readlines(); html_content = ''.join(lines[2:])
ReadFile ==
    /\ pc = "read"
    /\ html_content' = body
    /\ pc' = "extract"
    /\ UNCHANGED <<main_vars, call_vars, script, title, body, image_urls, image_tags, saved, order, mdx>>

\* image_urls = extract_images(html_content)
ExtractImages ==
    /\ pc = "extract"
    /\ image_urls' = extract_images(html_content, 1)
    /\ pc' = IF image_urls' = <<>> THEN "replace_img" ELSE "download"
    /\ UNCHANGED <<main_vars, call_vars, script, title, body, html_content, image_tags, saved, order, mdx>>

\* a numbering that counts the files written so far
image_number_of_files(tags, files) == Cardinality(files) + 1

\* the i of `for i, url in enumerate(image_urls, 1)` when the loop has
\* appended the entries of `tags` and written the files `files`
image_number(tags, files) == Len(tags) + 1

\* one turn of the download loop, download_image returning True
DownloadOk ==
    /\ pc = "download"
    /\ LET n == image_number(image_tags, saved)
           path == image_path_for_mdx(script, title, n)
       IN /\ saved' = saved \cup {path}
          /\ image_tags' = Append(image_tags, create_image_tag(script, path))
          /\ pc' = IF Len(image_tags') = Len(image_urls) THEN "replace_img" ELSE "download"
    /\ UNCHANGED <<main_vars, call_vars, script, title, body, html_content, image_urls, order, mdx>>

\* one turn of the download loop, download_image returning False
DownloadFail ==
    /\ pc = "download"
    /\ LET n == image_number(image_tags, saved)
       IN /\ image_tags' = Append(image_tags, fallback_tag(script, image_urls[n]))
          /\ pc' = IF Len(image_tags') = Len(image_urls) THEN "replace_img" ELSE "download"
    /\ UNCHANGED <<main_vars, call_vars, script, title, body, html_content, image_urls, saved, order, mdx>>

\* a step of html_to_markdown that does not depend on a set's iteration order
Convert(step, text) ==
    /\ pc = step
    /\ html_content' = text
    /\ pc' = next_step(script, step)
    /\ UNCHANGED <<main_vars, call_vars, script, title, body, image_urls, image_tags, saved, order, mdx>>

ReplaceImages == Convert("replace_img", sub_img(script, html_content, 1, image_tags, 0))
ConvertHeadings == Convert("headings", convert_headings(script, html_content))
ConvertLists == Convert("lists", process_lists(html_content))
ConvertParagraphs == Convert("paragraphs", convert_paragraphs(html_content))
ConvertInline == Convert("inline", convert_inline(html_content))
ConvertTables == Convert("tables", convert_tables(html_content))
ConvertIframes == Convert("iframes", sub_iframes(html_content, 1))
CleanBr == Convert("br", sub_br(html_content, 1))
CleanWhitespace == Convert("whitespace", cleanup_whitespace(html_content))
Unescape == Convert("unescape", unescape(html_content))
Strip == Convert("strip", strip(html_content))

\* "Remove any remaining HTML tags (preserve with comment)"
PreserveTags ==
    /\ pc = "residual"
    /\ \E o \in iteration_orders(script, findall_tags(html_content, 1)) :
          /\ order' = o
          /\ html_content' = preserve_tags(script, html_content, o)
    /\ pc' = next_step(script, "residual")
    /\ UNCHANGED <<main_vars, call_vars, script, title, body, image_urls, image_tags, saved, mdx>>

\* with open(mdx_path, 'w') ...: f.write(...)
WriteMdx ==
    /\ pc = "write"
    /\ mdx' = mdx \cup {mdx_file(script, title, html_content)}
    /\ pc' = "done"
    /\ UNCHANGED <<main_vars, call_vars, script, title, body, html_content, image_urls, image_tags, saved, order>>

Next ==
    \/ ReadFile
    \/ ExtractImages
    \/ DownloadOk
    \/ DownloadFail
    \/ ReplaceImages
    \/ ConvertHeadings
    \/ ConvertLists
    \/ ConvertParagraphs
    \/ ConvertInline
    \/ ConvertTables
    \/ ConvertIframes
    \/ CleanBr
    \/ CleanWhitespace
    \/ PreserveTags
    \/ Unescape
    \/ Strip
    \/ WriteMdx

Spec == Init /\ [][Next]_vars

(***************************************************************************)
(* create_image_tag on local paths                                         *)
(***************************************************************************)
\* what a path segment may be: empty, with a space, with a percent sign, plain
Segments == {"", "a b", "%41", "images"}

MaxSegments == 3

RECURSIVE Paths(_)
\* the paths of at most n segments (n >= 1)
Paths(n) ==
    IF n = 1 THEN Segments
    ELSE LET P == Paths(n - 1) IN P \cup {q \o "/" \o g : q \in P, g \in Segments}

\* a local image path is at hand; no document is being converted
PathInit ==
    /\ script \in {Framer, Onboarding}
    /\ saved \in {{q} : q \in Paths(MaxSegments)}
    /\ image_tags = <<>>
    /\ title = ""
    /\ body = ""
    /\ html_content = ""
    /\ image_urls = <<>>
    /\ order = <<>>
    /\ mdx = {}
    /\ pc = "saved"
    /\ NoBatch
    /\ NoCall

\* image_tags.append(create_image_tag(image_path_for_mdx))
CreateImageTag ==
    /\ pc = "saved"
    /\ \E local_path \in saved :
          image_tags' = Append(image_tags, create_image_tag(script, local_path))
    /\ pc' = "tagged"
    /\ UNCHANGED <<main_vars, call_vars, script, title, body, html_content, image_urls, saved, order, mdx>>

PathNext == CreateImageTag

PathSpec == PathInit /\ [][PathNext]_vars

(***************************************************************************)
(* main: a batch run over the source documents                             *)
(***************************************************************************)
\* main is about to loop over the documents
BatchInit ==
    /\ script \in Scripts
    /\ txt_files \in UNION {Documents(o) :
          o \in IF script = Onboarding THEN GlobOrders ELSE {MappingKeys}}
    /\ script = Onboarding => \A n \in DOMAIN txt_files : txt_files[n].file.exists
    /\ attempted = <<>>
    /\ processed = 0
    /\ NoCall
    /\ title = ""
    /\ body = ""
    /\ html_content = ""
    /\ image_urls = <<>>
    /\ image_tags = <<>>
    /\ saved = {}
    /\ order = <<>>
    /\ mdx = {}
    /\ pc = "main"

\* the document the loop of main is at
current == txt_files[Len(attempted) + 1]

\* one turn of the loop of main: process_file(input_file, ...) and the count
ProcessFile ==
    /\ pc = "main"
    /\ Len(attempted) < Len(txt_files)
    /\ script = Onboarding \/ current.file.exists
    /\ \E r \in process_file(script, current.filename, current.file) :
          /\ attempted' = Append(attempted,
                [filename |-> current.filename, returned |-> r.returned,
                 raised |-> r.raised, mdx |-> r.mdx])
          /\ saved' = saved \cup r.saved
          /\ mdx' = written(mdx, r.mdx)
          /\ processed' = IF script # OwnersAdmin /\ r.returned = "True"
                          THEN processed + 1 ELSE processed
          /\ pc' = IF r.raised THEN "raised" ELSE "main"
    /\ UNCHANGED <<call_vars, script, title, body, html_content, image_urls, image_tags, order,
                   txt_files>>

\* one turn of the loop of main: input_file.exists() is False
FileNotFound ==
    /\ pc = "main"
    /\ Len(attempted) < Len(txt_files)
    /\ script # Onboarding /\ ~current.file.exists
    /\ attempted' = Append(attempted,
          [filename |-> current.filename, returned |-> "None", raised |-> FALSE, mdx |-> {}])
    /\ UNCHANGED <<call_vars, script, title, body, html_content, image_urls, image_tags, saved,
                   order, mdx, pc, txt_files, processed>>

\* the loop is over: print(f"Completed: {processed}/{len(...)} files processed")
Completed ==
    /\ pc = "main"
    /\ Len(attempted) = Len(txt_files)
    /\ pc' = "done"
    /\ UNCHANGED <<main_vars, call_vars, script, title, body, html_content, image_urls, image_tags,
                   saved, order, mdx>>

BatchNext ==
    \/ ProcessFile
    \/ FileNotFound
    \/ Completed

BatchSpec == BatchInit /\ [][BatchNext]_vars

(***************************************************************************)
(* load_file_mapping called with a category                                *)
(***************************************************************************)
\* the category arguments: the four categories, "all", and one that is unknown
CategoryArgs == {Categories[n] : n \in DOMAIN Categories} \cup {"all", "other"}

\* the file names looked up: every key of `mappings` and one that is unmapped
FileNameArgs == UNION {DOMAIN mappings[c] : c \in DOMAIN mappings} \cup {"Unmapped.txt"}

\* main is about to call load_file_mapping(category_arg)
MappingInit ==
    /\ args \in [category : CategoryArgs, filename : FileNameArgs]
    /\ content = ""
    /\ returned = <<>>
    /\ script = Framer
    /\ title = ""
    /\ body = ""
    /\ html_content = ""
    /\ image_urls = <<>>
    /\ image_tags = <<>>
    /\ saved = {}
    /\ order = <<>>
    /\ mdx = {}
    /\ pc = "load"
    /\ NoBatch

\* file_mapping = load_file_mapping(category_arg)
LoadFileMapping ==
    /\ pc = "load"
    /\ returned' = load_file_mapping(args.category)
    /\ pc' = "loaded"
    /\ UNCHANGED <<main_vars, args, content, script, title, body, html_content, image_urls,
                   image_tags, saved, order, mdx>>

MappingNext == LoadFileMapping

MappingSpec == MappingInit /\ [][MappingNext]_vars

(***************************************************************************)
(* sanitize_filename on titles                                             *)
(***************************************************************************)
\* what a title is made of: letters of either case, the underscore, the
\* hyphen, two kinds of whitespace, a punctuation mark
TitleChars == {"A", "b", "_", "-", " ", "\t", "&"}

MaxTitle == 4

RECURSIVE TitleTexts(_)
\* the titles of at most n characters
TitleTexts(n) ==
    IF n = 0 THEN {""}
    ELSE LET T == TitleTexts(n - 1) IN T \cup {t \o c : t \in T, c \in TitleChars}

\* process_file has read the title of a document
SanitizeInit ==
    /\ title \in TitleTexts(MaxTitle)
    /\ script \in {Framer}
    /\ body = ""
    /\ html_content = ""
    /\ image_urls = <<>>
    /\ image_tags = <<>>
    /\ saved = {}
    /\ order = <<>>
    /\ mdx = {}
    /\ pc = "title"
    /\ NoBatch
    /\ NoCall

\* sanitized_title = sanitize_filename(title)
SanitizeFilename ==
    /\ pc = "title"
    /\ returned' = sanitize_filename(title)
    /\ pc' = "sanitized"
    /\ UNCHANGED <<main_vars, args, content, script, title, body, html_content, image_urls,
                   image_tags, saved, order, mdx>>

SanitizeNext == SanitizeFilename

SanitizeSpec == SanitizeInit /\ [][SanitizeNext]_vars

(***************************************************************************)
(* An MDX file is written, then read and rewritten by the title scripts    *)
(***************************************************************************)
\* process_file is about to write the MDX file of a document
FrontInit ==
    /\ script \in Scripts
    /\ title \in FileTitles
    /\ html_content \in Markdowns
    /\ args \in [correct_title : TITLE_MAPPING]
    /\ content = ""
    /\ returned = <<>>
    /\ body = ""
    /\ image_urls = <<>>
    /\ image_tags = <<>>
    /\ saved = {}
    /\ order = <<>>
    /\ mdx = {}
    /\ pc = "write"
    /\ NoBatch

\* fix_navigation_labels: title = extract_frontmatter_title(file_path) and
\* the label the page is given
ReadLabel ==
    /\ pc = "done"
    /\ \E f \in mdx : returned' = label(extract_frontmatter_title(f.text))
    /\ pc' = "labelled"
    /\ UNCHANGED <<main_vars, args, content, script, title, body, html_content, image_urls,
                   image_tags, saved, order, mdx>>

\* fix_subbar_titles: process_mdx_file(file_path, correct_title), in a first
\* run of the script and in a second one
FixTitle ==
    /\ pc \in {"done", "fixed"}
    /\ \E f \in mdx :
          Let(process_mdx_file(f.text, args.correct_title), LAMBDA r :
              /\ mdx' = {[path |-> f.path, text |-> r.content]}
              /\ returned' = <<r.returned>>)
    /\ pc' = IF pc = "done" THEN "fixed" ELSE "refixed"
    /\ UNCHANGED <<main_vars, args, content, script, title, body, html_content, image_urls,
                   image_tags, saved, order>>

FrontNext ==
    \/ WriteMdx
    \/ ReadLabel
    \/ FixTitle

FrontSpec == FrontInit /\ [][FrontNext]_vars

(***************************************************************************)
(* The image path fixers run on an MDX file, twice                         *)
(***************************************************************************)
\* an MDX file holds one image reference
FixInit ==
    /\ args \in [fixer : Fixers, kind : TagKinds, local_path : LocalPaths,
                 text : {"", "A\n"}]
    /\ content = args.text \o image_reference(args.kind, args.local_path) \o args.text
    /\ returned = <<>>
    /\ script = Framer
    /\ title = ""
    /\ body = ""
    /\ html_content = ""
    /\ image_urls = <<>>
    /\ image_tags = <<>>
    /\ saved = {}
    /\ order = <<>>
    /\ mdx = {}
    /\ pc = "file"
    /\ NoBatch

\* main: fix_image_paths_in_file(mdx_file), in a first run of the script and
\* in a second one
FixImagePathsInFile ==
    /\ pc \in {"file", "fixed"}
    /\ Let(fix_image_paths_in_file(args.fixer, content), LAMBDA r :
           /\ content' = r.content
           /\ returned' = <<r.returned>>)
    /\ pc' = IF pc = "file" THEN "fixed" ELSE "refixed"
    /\ UNCHANGED <<main_vars, args, script, title, body, html_content, image_urls, image_tags,
                   saved, order, mdx>>

FixNext == FixImagePathsInFile

FixSpec == FixInit /\ [][FixNext]_vars

(***************************************************************************)
(* The image references of a document are replaced by local paths          *)
(***************************************************************************)
\* download_and_update_images.process_mdx_file has read measuring-performance.mdx,
\* organize_docs.process_file the lines of the source file of that article
ImageInit ==
    /\ script \in {DownloadAndUpdate, OrganizeDocs}
    /\ args \in [urls : UrlLists(MaxImages)]
    /\ title = "Measuring Performance"
    /\ body = document(script, args.urls, 1)
    /\ html_content = ""
    /\ image_urls = <<>>
    /\ image_tags = <<>>
    /\ saved = {}
    /\ order = <<>>
    /\ mdx = {}
    /\ content = ""
    /\ returned = <<>>
    /\ pc = "find"
    /\ NoBatch

\* matches = list(re.finditer(pattern, content)) and new_content = content /
\* image_urls = extract_image_urls(content)
FindImages ==
    /\ pc = "find"
    /\ image_urls' = IF script = DownloadAndUpdate THEN finditer(body, 1)
                     ELSE extract_image_urls(body)
    /\ html_content' = body
    /\ pc' = IF image_urls' # <<>> THEN "download"
             ELSE IF script = DownloadAndUpdate THEN "done" ELSE "write"
    /\ UNCHANGED <<main_vars, call_vars, script, title, body, image_tags, saved, order, mdx>>

\* the local path of the file download_image writes for image n
local_image_path(tool, n) ==
    IF tool = DownloadAndUpdate THEN local_image_url(n)
    ELSE "/images/" \o sanitize_title(title) \o "/" \o sanitize_title(title) \o "-"
         \o str(n) \o ".png"

\* where the download loop goes after the turn that made image_tags' complete
after_download(tool, done) ==
    IF ~done THEN "download" ELSE IF tool = DownloadAndUpdate THEN "write" ELSE "update"

\* one turn of the download loop, download_image returning True
FetchOk ==
    /\ pc = "download"
    /\ Let(Len(image_tags) + 1, LAMBDA i :
           /\ saved' = saved \cup {local_image_path(script, i)}
           /\ html_content' =
                 IF script = DownloadAndUpdate
                 THEN replace_first(html_content, "![](" \o image_urls[i] \o ")",
                                    "![](" \o local_image_url(i) \o ")")
                 ELSE html_content)
    /\ image_tags' = Append(image_tags, TRUE)
    /\ pc' = after_download(script, Len(image_tags') = Len(image_urls))
    /\ UNCHANGED <<main_vars, call_vars, script, title, body, image_urls, order, mdx>>

\* one turn of the download loop, download_image returning False
FetchFail ==
    /\ pc = "download"
    /\ image_tags' = Append(image_tags, FALSE)
    /\ pc' = after_download(script, Len(image_tags') = Len(image_urls))
    /\ UNCHANGED <<main_vars, call_vars, script, title, body, html_content, image_urls, saved,
                   order, mdx>>

\* organize_docs: content = update_image_references(content, image_urls, sanitized_title)
UpdateImageReferences ==
    /\ pc = "update"
    /\ html_content' = update_image_references(html_content, image_urls, sanitize_title(title), 1)
    /\ pc' = "write"
    /\ UNCHANGED <<main_vars, call_vars, script, title, body, image_urls, image_tags, saved,
                   order, mdx>>

\* with open(mdx_path, 'w') ...: f.write(new_content) /
\* with open(dest_path, 'w') ...: f.write(title + '\n\n' + content)
WriteFile ==
    /\ pc = "write"
    /\ mdx' = IF script = DownloadAndUpdate
              THEN {[path |-> "Owners & Administration/Reporting/measuring-performance.mdx",
                     text |-> html_content]}
              ELSE {[path |-> "Owners & Administration/Reporting/" \o sanitize_title("Reporting")
                              \o "-" \o sanitize_title(title) \o ".txt",
                     text |-> title \o "\n\n" \o html_content]}
    /\ pc' = "done"
    /\ UNCHANGED <<main_vars, call_vars, script, title, body, html_content, image_urls,
                   image_tags, saved, order>>

ImageNext ==
    \/ FindImages
    \/ FetchOk
    \/ FetchFail
    \/ UpdateImageReferences
    \/ WriteFile

ImageSpec == ImageInit /\ [][ImageNext]_vars

(***************************************************************************)
(* Properties                                                              *)
(***************************************************************************)

RECURSIVE img_elements(_, _)
\* the <img ...> elements of s (the matches of <img[^>]+>) from index i on
img_elements(s, i) ==
    Let(Find(s, "<img", i), LAMBDA o :
    IF o = 0 THEN <<>>
    ELSE Let(img_end(s, o), LAMBDA e :
         IF e = 0 THEN img_elements(s, o + 1)
         ELSE <<SubSeq(s, o, e)>> \o img_elements(s, e + 1)))

\* s ends with p
EndsWith(s, p) == At(s, Len(s) - Len(p) + 1, p)

\* the download loop is over
Downloaded == pc \notin {"read", "extract", "download"}

\* C1: in process_file every <img> element that has a tag substituted for it
\* gets the tag resolved from its own source URL: the k-th element in document
\* order is the k-th image occurrence the tags were built for, whether or not
\* its src is a framerusercontent.com URL.
C1_OwnTag ==
    Downloaded =>
        \A k \in 1..Len(img_elements(body, 1)) :
            k <= Len(image_tags) =>
                extract_images(img_elements(body, 1)[k], 1) = <<image_urls[k]>>

\* what the output shows in the place of the element elem once tag is substituted
shown(elem, tag) == strip(replace_img(script, elem, <<tag>>, 0))

RECURSIVE own_blocks(_, _, _, _)
\* from index i on, out holds texts[n], texts[n+1], ... in this order, each with
\* a blank line (or an end of the text) on either side
own_blocks(out, i, texts, n) ==
    IF n > Len(texts) THEN TRUE
    ELSE Let(Find(out, texts[n], i), LAMBDA p :
         /\ p # 0
         /\ p = 1 \/ At(out, p - 2, "\n\n")
         /\ p + Len(texts[n]) = Len(out) + 1 \/ At(out, p + Len(texts[n]), "\n\n")
         /\ own_blocks(out, p + Len(texts[n]), texts, n + 1))

\* C2: with N <img> tags in the body and N image tags, the output holds the N
\* image tags in their order, each as a paragraph block of its own with blank
\* lines around it, wherever the <img> stood (top level, paragraph, list item,
\* next to another image).
C2_OwnParagraph ==
    (pc = "done" /\ Len(img_elements(body, 1)) = Len(image_tags)) =>
        own_blocks(html_content, 1,
                   [n \in 1..Len(image_tags) |->
                       shown(img_elements(body, 1)[n], image_tags[n])], 1)

\* C3: an <img> occurrence beyond the supplied image tags is in the final output
\* as its literal original text, not wrapped and not removed, in every converter.
C3_Untouched ==
    pc = "done" =>
        \A k \in 1..Len(img_elements(body, 1)) :
            k > Len(image_tags) =>
                /\ Contains(html_content, img_elements(body, 1)[k])
                /\ ~Contains(html_content, Marker(img_elements(body, 1)[k]))

\* image tag lists a caller may pass
TagLists == {<<>>, <<"<img src=\"/images/x.png\" alt=\"\" />">>}

\* C4: for a body with no <img> tag, the output is the same for every image_tags
\* list and holds no image markup.
C4_NoImageMarkup ==
    (pc = "done" /\ ~Contains(body, "<img")) =>
        /\ \A t \in TagLists : html_to_markdown(script, body, t, order) = html_content
        /\ ~Contains(html_content, "<img")

\* the image_tags entry of the n-th URL when its download failed
FailedTag(n) == "<img src=\"" \o image_urls[n] \o "\" alt=\"\" />"

\* the end of the local file name of image n
LocalName(n) == "-" \o str(n) \o ".png"

\* C5: in process_file (convert_framer_to_mdx, convert_onboarding_docs), whatever
\* downloads fail, the run goes on until the document is converted and written;
\* image_tags gets one entry per extracted URL, in extraction order; the entry of
\* a failed image is <img src="URL" alt="" /> with its remote URL; a downloaded
\* image n is saved under, and referenced by, the file number n of its
\* occurrence, whatever happened to the other images.
C5_Degrades ==
    script # OwnersAdmin =>
        /\ Len(image_tags) <= Len(image_urls)
        /\ Downloaded => Len(image_tags) = Len(image_urls)
        /\ \A n \in 1..Len(image_tags) :
              \/ /\ image_tags[n] = FailedTag(n)
                 /\ \A f \in saved : ~EndsWith(f, LocalName(n))
              \/ /\ EndsWith(image_tags[n], LocalName(n) \o "\" alt=\"\" />")
                 /\ ~Contains(image_tags[n], image_urls[n])
                 /\ \E f \in saved : EndsWith(f, LocalName(n))
        /\ \A f \in saved : \E n \in 1..Len(image_tags) : EndsWith(f, LocalName(n))
        /\ pc = "download" => Len(image_tags) < Len(image_urls)
        /\ pc = "done" => \E f \in mdx : EndsWith(f.text, html_content)

\* two images, the first download failed, the second succeeded, document written
C5_Witness ==
    /\ pc = "done"
    /\ script = Framer
    /\ Len(image_urls) = 2
    /\ image_tags[1] = FailedTag(1)
    /\ EndsWith(image_tags[2], LocalName(2) \o "\" alt=\"\" />")
    /\ Cardinality(saved) = 1
    /\ mdx # {}

RawNames == {"p", "h2", "h3", "h4", "h5", "h6", "ul", "ol", "li", "strong", "em",
             "code", "a", "br", "table"}

PreservedPrefix == "<!-- HTML preserved: "

\* an opening or closing tag of one of RawNames, with or without attributes,
\* starts at index i of s, and not as the tag a marker names
raw_tag_at(s, i) ==
    /\ At(s, i, "<")
    /\ ~At(s, i - Len(PreservedPrefix), PreservedPrefix)
    /\ \E name \in RawNames :
          \E j \in {IF At(s, i + 1, "/") THEN i + 2 ELSE i + 1} :
              /\ At(s, j, name)
              /\ \E c \in {">", " ", "/", "\n", "\t"} : At(s, j + Len(name), c)

\* C6: the output of html_to_markdown holds no raw <p>, <h2>..<h6>, <ul>, <ol>,
\* <li>, <strong>, <em>, <code>, <a>, <br> or <table> tag, opening or closing,
\* with or without attributes.
C6_NoRawTags ==
    pc = "done" => \A i \in 1..Len(html_content) : ~raw_tag_at(html_content, i)

RECURSIVE wrap_each(_, _, _)
\* s from index i on with every tag occurrence (match of <[^>]+>) that is not on
\* the allow-list wrapped once in its marker, and everything else kept
wrap_each(scr, s, i) ==
    Let(Find(s, "<", i), LAMBDA o :
    IF o = 0 THEN From(s, i)
    ELSE Let(Find(s, ">", o + 1), LAMBDA g :
         IF g = 0 THEN From(s, i)
         ELSE IF g = o + 1 THEN SubSeq(s, i, o) \o wrap_each(scr, s, o + 1)
         ELSE SubSeq(s, i, o - 1)
              \o (IF allowed(scr, SubSeq(s, o, g)) THEN SubSeq(s, o, g)
                  ELSE Marker(SubSeq(s, o, g)))
              \o wrap_each(scr, s, g + 1)))

\* a tag that is not on the allow-list starts at index o of s as raw markup:
\* it is no marker and not the tag a marker names
raw_foreign_at(scr, s, o) ==
    /\ At(s, o, "<")
    /\ ~At(s, o, PreservedPrefix)
    /\ ~At(s, o - Len(PreservedPrefix), PreservedPrefix)
    /\ \E g \in {Find(s, ">", o + 1)} :
          g > o + 1 /\ ~allowed(scr, SubSeq(s, o, g))

\* C7: every tag occurrence left after the whitespace clean-up that is not on the
\* allow-list is in the final output wrapped exactly once in a marker naming its
\* literal text, the text between the tags is kept, and no tag outside the
\* allow-list is left as raw markup.
C7_Preserved ==
    pc = "done" =>
        /\ html_content =
               strip(unescape(wrap_each(script,
                   run(script, "replace_img", "residual", body, image_tags, <<>>), 1)))
        /\ \A o \in 1..Len(html_content) : ~raw_foreign_at(script, html_content, o)

\* the nested list example
NestedExample == "<ul><li>A<ul><li>B</li></ul></li></ul>"

\* what may indent a nested bullet
Indents == {"", " ", "  ", "    ", "\t"}

\* C8: the nested list example converts to two bullet lines, one for A and a
\* separate one for B under it, with no <ul> or <li> tag left.
C8_TwoBullets ==
    (pc = "done" /\ body = NestedExample) =>
        html_content \in {"- A\n" \o ind \o "- B" : ind \in Indents}

RECURSIVE li_close(_, _, _)
\* index of the </li> that closes the <li> whose content starts at j, counting
\* the <li> elements opened in between (depth of them still open); 0 if none
li_close(s, j, depth) ==
    Let(Find(s, "<li", j), LAMBDA a :
    Let(Find(s, "</li>", j), LAMBDA c :
    IF c = 0 THEN 0
    ELSE IF a # 0 /\ a < c THEN li_close(s, a + 3, depth + 1)
    ELSE IF depth = 0 THEN c
    ELSE li_close(s, c + 5, depth - 1)))

\* the contents of the <li> elements of s: for each opening tag, the text up to
\* its own closing tag
li_own(s) ==
    {SubSeq(s, o + 4, li_close(s, o + 4, 0) - 1) :
        o \in {k \in 1..Len(s) : At(s, k, "<li>") /\ li_close(s, k + 4, 0) # 0}}

RECURSIVE li_matched(_, _)
\* the contents (group 2) that one pass of the <li> substitution hands to
\* replace_li, from index i on
li_matched(s, i) ==
    Let(Find(s, "<li", i), LAMBDA o :
    IF o = 0 THEN <<>>
    ELSE Let(Find(s, ">", o + 3), LAMBDA g :
         Let(IF g = 0 THEN 0 ELSE Find(s, "</li>", g + 1), LAMBDA c :
         IF c = 0 THEN <<>>
         ELSE <<SubSeq(s, g + 1, c - 1)>> \o li_matched(s, c + 5))))

\* C9: process_lists converts the items of a well-nested list (depth at most 10)
\* from the innermost outward: each <li> is converted from exactly the content
\* between its own opening tag and its own closing tag, and afterwards no
\* <ul>, <ol>, <li> or </li> is left.
C9_OwnContent ==
    (body \in NestedLists /\ pc = "lists") =>
        /\ \A n \in 1..Len(li_matched(html_content, 1)) :
              li_matched(html_content, 1)[n] \in li_own(html_content)
        /\ \A t \in {"<ul", "<ol", "<li", "</li>", "</ul>", "</ol>"} :
              ~Contains(process_lists(html_content), t)

\* C10: the steps run in the order the spec numbers them: in the converter
\* with tables, table conversion comes directly after image substitution (and
\* so before heading, list, paragraph and inline conversion).
C10_SpecOrder ==
    [][(script = Onboarding /\ pc = "replace_img") => pc' = "tables"]_vars


RECURSIVE cell_findall(_, _)
\* the contents of the <th> and <td> cells of a row, in document order
cell_findall(s, i) ==
    Let(Find(s, "<th", i), LAMBDA h :
    Let(Find(s, "<td", i), LAMBDA d :
    Let(IF h = 0 \/ (d # 0 /\ d < h) THEN d ELSE h, LAMBDA o :
    IF o = 0 THEN <<>>
    ELSE Let(Find(s, ">", o + 3), LAMBDA g :
         Let(IF g = 0 THEN 0 ELSE Find(s, "</" \o SubSeq(s, o + 1, o + 2) \o ">", g + 1),
             LAMBDA c :
         IF c = 0 THEN <<>>
         ELSE <<SubSeq(s, g + 1, c - 1)>> \o cell_findall(s, c + 5))))))

\* the cleaned cells of every source row of a table that has cells, in source order
source_rows(table_html) ==
    Let(elem_findall(table_html, 1, "tr"), LAMBDA trs :
    Let([n \in 1..Len(trs) |->
            Let(cell_findall(trs[n], 1), LAMBDA cs :
                [k \in 1..Len(cs) |-> clean_cell(cs[k])])], LAMBDA rows :
    SelectSeq(rows, LAMBDA r : r # <<>>)))

\* the pipe table of rows: header row, separator of as many --- as the header
\* row has cells, then the other rows
pipe_table(rows) ==
    "\n\n" \o join("\n", <<md_row(rows[1]), md_row([n \in 1..Len(rows[1]) |-> "---"])>>
                         \o [n \in 1..(Len(rows) - 1) |-> md_row(rows[n + 1])], 1)
    \o "\n\n"

\* C11: for a <table> with at least one row of cells, the table step emits the
\* header row, a separator row with as many --- columns as the header row has
\* cells, then the remaining rows in source order, every emitted row carrying
\* all the cells (<th> or <td>) of its source row.
C11_AllCells ==
    (script = Onboarding /\ pc = "tables" /\ body \in Tables
        /\ source_rows(html_content) # <<>>) =>
        convert_tables(html_content) = pipe_table(source_rows(html_content))


\* the body is a <table> block from which convert_table extracts no row
ZeroRows == body \in Tables /\ table_rows(elem_findall(body, 1, "tr"), 1) = <<>>

\* C12 as stated: a <table> block from which zero rows are extracted appears
\* verbatim in the final output of html_to_markdown.
C12_VerbatimOutput ==
    (script = Onboarding /\ pc = "done" /\ ZeroRows) => Contains(html_content, body)

\* C12: a <table> block from which zero rows are extracted is returned verbatim
\* by the table step (the text after the step is the text before it) and no
\* Markdown table is emitted for it; the residual-tag step then wraps each of
\* its tags in a marker, keeping the text between them.
C12_ReturnedVerbatim ==
    (script = Onboarding /\ ZeroRows) =>
        /\ pc = "tables" => convert_tables(html_content) = html_content
        /\ pc = "iframes" => html_content = body
        /\ pc = "done" =>
              /\ ~Contains(html_content, "|")
              /\ html_content = wrap_each(script, body, 1)

\* the table step has run on a table without rows
C12_Witness ==
    script = Onboarding /\ pc = "iframes" /\ ZeroRows /\ html_content = "<table><tr></tr></table>"


\* C13: in every converter, for every level N from 2 to 6, <hN>T</hN> becomes
\* the line of N # characters, a space and T, with a blank line (or an end of
\* the text) on either side, and no <hN> tag remains.
C13_Headings ==
    (pc = "done" /\ body \in Headings) =>
        \A n \in Levels :
            Contains(body, "<h" \o str(n) \o ">") =>
                /\ own_blocks(html_content, 1, <<Hashes[n] \o " T">>, 1)
                /\ ~Contains(html_content, "<h" \o str(n))
                /\ ~Contains(html_content, "</h" \o str(n))


\* C14: the inline formatting step applied to text that has already gone
\* through it returns that text unchanged (in particular no ** is wrapped a
\* second time), for every input, nested and repeated inline tags included.
C14_InlineIdempotent ==
    pc = next_step(script, "inline") => convert_inline(html_content) = html_content


\* C15: the output of html_to_markdown never holds three or more consecutive
\* newlines and never a space or a tab right before a newline; four
\* consecutive newlines of the input come out as exactly two.
C15_Whitespace ==
    pc = "done" =>
        /\ ~Contains(html_content, "\n\n\n")
        /\ ~Contains(html_content, " \n")
        /\ ~Contains(html_content, "\t\n")
        /\ body = "a\n\n\n\nb" => html_content = "a\n\nb"


\* the converter has a step for the markup of place w (tables: only one has)
converted_place(w) == Contains(w[1], "<table>") => script = Onboarding

\* C16: entities are decoded once, by the final step only: an entity text that
\* stands in a paragraph, a list item or a table cell is in the output as its
\* once-decoded text, the same in each place, and is never handled as a tag
\* (wrapped in a marker) by a step before the decoding.
C16_DecodedOnce ==
    pc = "done" =>
        \A w \in Places : \A e \in EntityTexts :
            (body = w[1] \o e \o w[2] /\ converted_place(w)) =>
                /\ Contains(html_content, unescape(e))
                /\ ~Contains(html_content, PreservedPrefix)


\* process_file is inside its call of html_to_markdown
InCall == pc \notin {"read", "extract", "download", "write", "done"}

\* the orders the statement at pc may visit a set in
orders_at_pc ==
    IF pc = "residual" THEN iteration_orders(script, findall_tags(html_content, 1))
    ELSE {<<>>}

\* C17: html_to_markdown terminates and returns a string without raising, for
\* every input, unclosed and malformed tags included: each of its statements
\* is defined on the text it meets and yields a string, and the call runs its
\* statements one after the other, each once, up to the return.  A list nested
\* as deep as the maximum of 10 is converted entirely; of a deeper one the
\* items below level 10 are left unconverted.  The call writes no file and
\* changes neither the source text nor the image tag list it was given.
C17_Terminates ==
    /\ [](InCall => \A o \in orders_at_pc :
                        apply_step(script, pc, html_content, image_tags, o) \in STRING)
    /\ [][InCall => /\ pc' = next_step(script, pc)
                    /\ html_content' \in STRING
                    /\ UNCHANGED <<body, image_tags, image_urls, saved, mdx>>]_vars
    /\ [](pc = "write" =>
            /\ body = Chain(1, MaxDepth) => ~Contains(html_content, "<li")
            /\ body = Chain(1, MaxDepth + 1) =>
                  Contains(html_content, "- J<li>K") /\ ~Contains(html_content, "- K"))

\* html_to_markdown has returned for a list nested deeper than the maximum
C17_Witness ==
    pc = "write" /\ body = Chain(1, MaxDepth + 1) /\ Contains(html_content, "<li>K")


\* C18: html_to_markdown is deterministic: whatever order the residual-tag
\* loop visits the set of remaining tags in, the call returns the same text
\* for the same html_content and image_tags.
C18_Deterministic ==
    pc = "write" => outputs(script, body, image_tags) = {html_content}


\* chr(n) for printable ASCII
chr(n) ==
    IF n >= 32 /\ n <= 95 THEN SubSeq(Ascii32, n - 31, n - 31)
    ELSE IF n >= 97 /\ n <= 126 THEN SubSeq(Ascii97, n - 96, n - 96)
    ELSE "?"

RECURSIVE unquote(_, _)
\* percent-decoding of s from index i on: %XY becomes the character of code XY
unquote(s, i) ==
    IF i > Len(s) THEN ""
    ELSE Let(Find(Hex, SubSeq(s, i + 1, i + 1), 1), LAMBDA h :
         Let(Find(Hex, SubSeq(s, i + 2, i + 2), 1), LAMBDA l :
         IF At(s, i, "%") /\ i + 2 <= Len(s) /\ h # 0 /\ l # 0
         THEN chr(16 * (h - 1) + (l - 1)) \o unquote(s, i + 3)
         ELSE SubSeq(s, i, i) \o unquote(s, i + 1)))

\* the src attribute of an image tag
src_of(tag) == SubSeq(tag, 11, Find(tag, "\"", 11) - 1)

\* the encoded path split on "/" and decoded segment by segment
decoded_path(encoded_path) ==
    Let(split(encoded_path, "/"), LAMBDA parts :
    join("/", [n \in 1..Len(parts) |-> unquote(parts[n], 1)], 1))

\* C19: the path encoding of create_image_tag keeps every / separator and
\* leaves the first segment untouched, and splitting the encoded path on /
\* and percent-decoding every segment gives back the original path, empty
\* segments, a trailing slash and a % in the first segment included.
C19_RoundTrip ==
    pc = "tagged" =>
        \A local_path \in saved :
            Let(src_of(image_tags[1]), LAMBDA encoded_path :
                /\ Len(split(encoded_path, "/")) = Len(split(local_path, "/"))
                /\ split(encoded_path, "/")[1] = split(local_path, "/")[1]
                /\ decoded_path(encoded_path) = local_path)


\* the URL src is at the host `host` (or its www. name)
at_host(src, host) ==
    \E pre \in {"https://", "https://www."} : At(src, 1, pre \o host \o "/")

\* C20: for an <iframe> whose src is at a video-embedding host, the final
\* output holds the embed block as markup: the opening tag with the fixed
\* attributes and the original src, directly followed by the closing
\* </iframe> tag; an <iframe> with another source is not rewritten into the
\* embed block.
C20_EmbedBlock ==
    (script = Onboarding /\ pc = "done") =>
        \A src \in IframeSources :
            body = iframe(src) =>
                IF \E host \in VideoHosts : at_host(src, host)
                THEN html_content = EmbedOpen(src) \o "</iframe>"
                ELSE ~Contains(html_content, "className")


\* a source file that can be read and has fewer than 2 lines
ShortFile(file) == file.exists /\ file.decodes /\ Len(file.lines) < 2

\* the loop of main has just called process_file on the document d
Called(d) == pc = "main" /\ Len(attempted) < Len(txt_files) /\ d = current
             /\ Len(attempted') = Len(attempted) + 1

\* C21: process_file rejects every source file with fewer than 2 lines: the
\* call returns without raising, no image is downloaded and no MDX file is
\* created or modified, in every converter script.
C21_Rejects ==
    [][\A d \in {txt_files[n] : n \in DOMAIN txt_files} :
          (Called(d) /\ ShortFile(d.file)) =>
              /\ pc' = "main"
              /\ saved' = saved
              /\ mdx' = mdx
              /\ attempted'[Len(attempted')].mdx = {}]_vars

\* the file names of a sequence of documents (of either kind), in order
names(docs) == [n \in DOMAIN docs |-> docs[n].filename]

\* C22: in a batch run every document of the input set is attempted exactly
\* once, no failure of one document keeps main from the remaining ones, and
\* the count reported at the end equals the number of documents for which an
\* MDX file was written.
C22_Batch ==
    /\ pc # "raised"
    /\ pc = "done" =>
          /\ names(attempted) = names(txt_files)
          /\ processed = Cardinality({n \in DOMAIN attempted : attempted[n].mdx # {}})

\* C30: in one batch run no two successfully processed documents write the
\* same MDX path: at the end of the run each of them has its own output file,
\* holding what process_file wrote for it.
C30_OwnOutput ==
    pc = "done" =>
        \A i, j \in DOMAIN attempted :
            (i < j /\ attempted[i].mdx # {} /\ attempted[j].mdx # {}) =>
                /\ \A f \in attempted[i].mdx, g \in attempted[j].mdx : f.path # g.path
                /\ attempted[i].mdx \subseteq mdx


\* C29: the mapping load_file_mapping("all") returns agrees with the mapping
\* of every category: a file name a category maps has the same entry in both.
C29_AllAgrees ==
    (pc = "loaded" /\ args.category = "all") =>
        \A c \in {Categories[n] : n \in DOMAIN Categories} :
            args.filename \in DOMAIN load_file_mapping(c) =>
                /\ args.filename \in DOMAIN returned
                /\ returned[args.filename] = load_file_mapping(c)[args.filename]


RECURSIVE name_words(_, _, _)
\* the words of a title: its maximal runs of word characters, lowercased,
\* where whitespace and hyphens separate words and every other character is
\* dropped without separating anything; cur is the word being read at i
name_words(s, i, cur) ==
    IF i > Len(s) THEN (IF cur = "" THEN <<>> ELSE <<cur>>)
    ELSE Let(lower_char(SubSeq(s, i, i)), LAMBDA c :
         IF IsWord(c) THEN name_words(s, i + 1, cur \o c)
         ELSE IF IsSpace(c) \/ c = "-"
         THEN (IF cur = "" THEN <<>> ELSE <<cur>>) \o name_words(s, i + 1, "")
         ELSE name_words(s, i + 1, cur))

\* C23: sanitize_filename returns the title lowercased, with the characters
\* that are neither word characters, whitespace nor hyphens removed and every
\* run of whitespace and hyphens collapsed to one hyphen: the words of the
\* title joined by single hyphens. The result holds no whitespace, no two
\* consecutive hyphens and no leading or trailing hyphen, and sanitizing it
\* again returns it unchanged.
C23_Sanitized ==
    pc = "sanitized" =>
        /\ returned = join("-", name_words(title, 1, ""), 1)
        /\ \A i \in 1..Len(returned) : ~IsSpace(SubSeq(returned, i, i))
        /\ ~Contains(returned, "--")
        /\ ~At(returned, 1, "-")
        /\ ~At(returned, Len(returned), "-")
        /\ sanitize_filename(returned) = returned

\* a title with punctuation, a run of whitespace and hyphens between two
\* words and a hyphen at its end has been sanitized
C23_Witness ==
    pc = "sanitized" /\ title \in {"A -b", "&A\t-", "- A-"} /\ returned \in {"a-b", "a"}


\* C24: the title process_file writes as  title: "T"  is read back by
\* extract_frontmatter_title as exactly T, so the navigation label of the
\* page equals the title of the document, apostrophes and quotes included.
C24_RoundTrip == pc = "labelled" => returned = <<title>>

\* the frontmatter of a text is the title line  title: 'T'  alone
TitleLine(text, T) == At(text, 1, "---\ntitle: '" \o T \o "'\n---")

\* C25: after process_mdx_file(file, T) has rewritten a file,
\* extract_frontmatter_title of the new content is T and the title line is
\* exactly  title: 'T' ; a second run of the script changes no file.
C25_FixedPoint ==
    [][/\ (pc = "done" /\ pc' = "fixed" /\ returned' = <<TRUE>>) =>
              \A f \in mdx' :
                  /\ extract_frontmatter_title(f.text) = <<args.correct_title>>
                  /\ TitleLine(f.text, args.correct_title)
       /\ (pc = "fixed" /\ pc' = "refixed") =>
              (returned' = <<FALSE>> /\ mdx' = mdx)]_vars


\* C26: fix_image_paths_in_file is idempotent: on a file it has already
\* fixed, and on a file whose image tags create_image_tag emitted, it returns
\* False and leaves the file as it is, so that no path is encoded twice.
C26_Idempotent ==
    [][(pc = "fixed" \/ (pc = "file" /\ args.kind \in {Framer, Onboarding})) =>
          (returned' = <<FALSE>> /\ content' = content)]_vars


\* the n-th image reference when every reference is replaced at its own
\* position: the local path of image n when its download succeeded, its
\* original URL otherwise
expected_refs ==
    [n \in DOMAIN args.urls |->
        IF image_tags[n] THEN local_image_path(script, n) ELSE args.urls[n]]

\* C27: in download_and_update_images.process_mdx_file, whatever the
\* downloads return, the i-th Framer image of the file ends as the local path
\* with index i when its download succeeded and as its original URL, at its
\* original position, when it failed; also when a URL occurs more than once.
C27_Positions ==
    (script = DownloadAndUpdate /\ pc = "done") =>
        \A f \in mdx : f.text = document(script, expected_refs, 1)

\* C28: in organize_docs, after update_image_references the i-th image
\* reference points to /images/<sanitized-title>/<sanitized-title>-i.png for
\* every list of extracted URLs (a URL occurring twice or being a prefix of
\* another included), and only the references whose download succeeded are
\* rewritten.
C28_References ==
    (script = OrganizeDocs /\ pc = "done") =>
        \A f \in mdx : f.text = title \o "\n\n" \o document(script, expected_refs, 1)

=============================================================================
